---------------------------- MODULE Spec2Model ----------------------------
(***************************************************************************)
(* A model of the wrts match server: the SharedEntityTracking table        *)
(* (wrts_match/src/networking.rs), the spawn/despawn commands              *)
(* (wrts_match/src/spawn_entity.rs), the detection update                  *)
(* (wrts_match/src/detection.rs) and the replication systems               *)
(* (wrts_match/src/networking.rs).                                         *)
(*                                                                         *)
(* Units.  A step of the line is 2_000 m and a tick is ten seconds, so     *)
(* MIN_DETECTION (2_000 m) is 1 and the firing boost (20 s) is 2.          *)
(* Positions lie on one line; a distance is an absolute difference.        *)
(* A SharedEntityId is a u64 whose low half is the slot index and whose    *)
(* high half is the slot version; it is modelled as the pair               *)
(* <<index, version>> of its halves.                                       *)
(***************************************************************************)
EXTENDS Integers, Sequences, FiniteSets, TLC

(***************************************************************************)
(* Bounds of the model.                                                    *)
(***************************************************************************)
\* Entities the tracker API is called with in TrackerSpec: 1..MaxLocals.
MaxLocals == 2
\* Calls of insert in one behaviour of TrackerSpec.
MaxInserts == 3
\* Entities spawned in one match (the world's handles are 1..MaxEntities).
MaxEntities == 5
\* Entities spawned in one behaviour of DetectionSpec.
MaxDetectionEntities == 4
\* Positions are 0..MaxCoord (steps of 2_000 m along one line).
MaxCoord == 2
\* Commands waiting for the next sync point.
MaxQueue == 3
\* Entities spawned in one behaviour of CommandSpec.
MaxCommandEntities == 4  \* entities of a run of CommandSpec

\* ProcessSpec: the slots of a channel (128 in the program), the frames a
\* pipe holds, the messages the clients send and the ticks that are counted.
ChannelCap == 2
PipeCap == 1
MaxClientMsgs == 3
MaxTicks == 2
\* FrameSpec: the bytes of a stream handed to read_from_stream.
MaxStream == 5
\* The points of the circle of directions.
Circle == 24
\* VolleySpec: the torpedoes of a volley of a ship template.
MaxTorps == 4

\* TurretSpec: the longest frame, in units of time.
MaxDelta == 2

VARIABLES
    tracking,    \* the SharedEntityTracking resource
    panicked,    \* the process has panicked (an expect/unwrap failed)
    issued,      \* history: the ids insert returned, in order
    retired,     \* history: the ids a remove_by_* call returned
    world,       \* the ECS world: entity -> its components (kind "none": no such entity)
    nextEntity,  \* the handle the next World::spawn returns
    cmdQueue,    \* the deferred commands, in the order they will be applied
    pc,          \* where the command being applied stands ("idle": none)
    cur,         \* the locals of the command being applied
    outbox,      \* the messages the last operation queued on MessagesSend, in order
    destroySent, \* history: <<client, id>> of every DestroyEntity queued
    idOf,        \* history: the id insert returned for each spawned entity
    kindOf,      \* history: the kind of each spawned entity
    shipState,   \* entity -> the components of a ship that client messages act on
    mainPc,      \* where the main thread of the match process stands
    hsCount,     \* the turns a loop of the main thread has made
    pending,     \* the message the main thread is sending (<<>>: none)
    stdin,       \* the frames in the pipe to the process's stdin
    stdinOpen,   \* the lobby holds the write end of stdin
    handlerAlive, \* the stdin_handler thread runs (it holds handler_tx)
    msgs_rx,     \* the inbound channel, stdin_handler to the main thread
    msgs_tx,     \* the outbound channel, the main thread to stdout_handler
    pipe,        \* the frames in the pipe from the process's stdout
    pipeOpen,    \* the lobby holds the read end of stdout
    infos,       \* network_handshake: the ids of the InitB received
    clientInfos, \* the ClientInfo entities spawned
    sentLog,     \* history: the messages the main thread queued, in order
    exitRequested, \* an AppExit event was written
    exitCode,    \* the exit status of the process (None: it runs)
    ticks,       \* the frames whose Update schedule ran
    connected,   \* the clients connected to the lobby
    routerAlive, \* the main loop of match_instance_router runs
    clientSent,  \* the messages the clients have sent to the match
    hsError,     \* history: why network_handshake gave up ("none": it has not)
    forwarderAlive, \* the lobby task that reads the process's stdout runs
    reader,      \* a call of read_from_stream on a stream of bytes
    rotation,    \* entity -> the way a ship's bow points along the line
    turretStates, \* entity -> the aim_info of each turret of a ship
    clamped,     \* a call of AngleRange::clamp_angle
    tubes,       \* the torpedo tubes of one ship and its last volley
    gun,         \* one turret of a ship through aim_turrets and fire_bullets
    smokeUnit,   \* the smoke consumable of one ship and the puffs it emitted
    arena,       \* ships and a projectile through the collision systems
    sched,       \* the systems of one frame in the order the executor ran them
    mover,       \* the MoveOrder of one ship through update_ship_velocity
    mm        \* the Matchmaker of the lobby and the clients that connected

trackerVars == <<tracking, panicked, issued, retired>>

processVars == <<mainPc, hsCount, pending, stdin, stdinOpen, handlerAlive,
                 msgs_rx, msgs_tx, pipe, pipeOpen, infos, clientInfos, sentLog,
                 exitRequested, exitCode, ticks, connected, routerAlive,
                 clientSent, hsError, forwarderAlive>>

\* The variables of the specifications of single parts.
unitVars == <<clamped, tubes, gun, smokeUnit, arena, sched, mover, mm>>

matchOnlyVars == <<world, nextEntity, cmdQueue, pc, cur, outbox, destroySent,
                   idOf, kindOf, shipState, processVars, reader, rotation,
                   turretStates, unitVars>>

vars == <<tracking, panicked, issued, retired, world, nextEntity, cmdQueue, pc,
          cur, outbox, destroySent, idOf, kindOf, shipState, processVars,
          reader, rotation, turretStates, unitVars>>

(***************************************************************************)
(* Option values.  Entity handles are positive, slot indices of live keys  *)
(* are positive and versions of live keys are odd, so 0 and <<0, 0>> are   *)
(* free to stand for None.                                                 *)
(***************************************************************************)
NoEntity == 0
\* Option::None of a number, a timer or a list (all of which are not -1).
None == -1
NoId == <<0, 0>>

Max(a, b) == IF a >= b THEN a ELSE b
Min(a, b) == IF a <= b THEN a ELSE b
Abs(a) == IF a >= 0 THEN a ELSE -a
Range(s) == {s[i] : i \in DOMAIN s}

(***************************************************************************)
(* slotmap::KeyData.  A key is <<idx, version>>.  KeyData::new and         *)
(* from_ffi force the version odd (version | 1); as_ffi packs the two      *)
(* halves unchanged.                                                       *)
(***************************************************************************)
OrOne(v) == IF v % 2 = 0 THEN v + 1 ELSE v

KeyData_from_ffi(id) == <<id[1], OrOne(id[2])>>

KeyData_as_ffi(kd) == <<kd[1], kd[2]>>

\* SharedEntityTracking::shared_to_inner
shared_to_inner(id) == KeyData_from_ffi(id)

\* A tracker that forgets the version half of the id (a plain slot index).
inner_to_shared_NoVersion(inner) == <<inner[1], 1>>

\* SharedEntityTracking::inner_to_shared
inner_to_shared(inner) == KeyData_as_ffi(inner)

(***************************************************************************)
(* slotmap::SlotMap<InnerSharedId, Entity>.  slots[i] is the slot of index *)
(* i (the sentinel slot 0 is left out: its version 0 matches no key).  An  *)
(* occupied slot has an odd version and holds a value; a vacant slot has   *)
(* an even version and links to the next free slot.  free_head is the      *)
(* index of the first free slot, Len(slots) + 1 when there is none.  A     *)
(* version is a u32 and wraps after 2^32 increments, which no bounded run  *)
(* here reaches.                                                           *)
(***************************************************************************)
SlotMap_new == [slots |-> <<>>, free_head |-> 1]

SlotMap_contains_key(sm, kd) ==
    /\ kd[1] \in DOMAIN sm.slots
    /\ sm.slots[kd[1]].version = kd[2]

SlotMap_get(sm, kd) ==
    IF SlotMap_contains_key(sm, kd) THEN sm.slots[kd[1]].value ELSE NoEntity

\* The key insert returns and the map after it.
SlotMap_insert(sm, value) ==
    IF sm.free_head \in DOMAIN sm.slots
    THEN LET slot == sm.slots[sm.free_head]
             occupied_version == OrOne(slot.version)
         IN  [key |-> <<sm.free_head, occupied_version>>,
              map |-> [slots |-> [sm.slots EXCEPT ![sm.free_head] =
                                    [version |-> occupied_version,
                                     value |-> value,
                                     next_free |-> 0]],
                       free_head |-> slot.next_free]]
    ELSE LET idx == Len(sm.slots) + 1
         IN  [key |-> <<idx, 1>>,
              map |-> [slots |-> Append(sm.slots,
                                    [version |-> 1, value |-> value,
                                     next_free |-> 0]),
                       free_head |-> idx + 1]]

\* The value remove returns (NoEntity for None) and the map after it.
\* A variant that frees the slot without advancing its version.
SlotMap_remove_KeepVersion(sm, kd) ==
    IF SlotMap_contains_key(sm, kd) /\ sm.slots[kd[1]].value # NoEntity
    THEN [value |-> sm.slots[kd[1]].value,
          map |-> [slots |-> [sm.slots EXCEPT ![kd[1]] =
                                [version |-> @.version,
                                 value |-> NoEntity,
                                 next_free |-> sm.free_head]],
                   free_head |-> kd[1]]]
    ELSE [value |-> NoEntity, map |-> sm]

SlotMap_remove(sm, kd) ==
    IF SlotMap_contains_key(sm, kd)
    THEN [value |-> sm.slots[kd[1]].value,
          map |-> [slots |-> [sm.slots EXCEPT ![kd[1]] =
                                [version |-> @.version + 1,
                                 value |-> NoEntity,
                                 next_free |-> sm.free_head]],
                   free_head |-> kd[1]]]
    ELSE [value |-> NoEntity, map |-> sm]

(***************************************************************************)
(* SharedEntityTracking.  local2shared is a HashMap<Entity, InnerSharedId>,*)
(* modelled as the set of its <<entity, key>> entries (at most one per     *)
(* entity).                                                                *)
(***************************************************************************)
SharedEntityTracking_default == [shared2local |-> SlotMap_new, local2shared |-> {}]

HashMap_get(m, k) == IF \E p \in m : p[1] = k
                     THEN (CHOOSE p \in m : p[1] = k)[2]
                     ELSE NoId

HashMap_remove(m, k) == {p \in m : p[1] # k}

HashMap_insert(m, k, v) == HashMap_remove(m, k) \cup {<<k, v>>}

\* insert: the id returned and the tracker after the call.
insert(t, local) ==
    LET r == SlotMap_insert(t.shared2local, local)
    IN  [id |-> inner_to_shared(r.key),
         tracking |-> [shared2local |-> r.map,
                       local2shared |-> HashMap_insert(t.local2shared, local, r.key)]]

\* A variant of remove_by_local that returns the id and leaves the pair in
\* the tracker.
remove_by_local_KeepsPair(t, local) ==
    LET id == HashMap_get(t.local2shared, local)
    IN  IF id = NoId
        THEN [id |-> NoId, panic |-> FALSE, tracking |-> t]
        ELSE [id |-> inner_to_shared(id), panic |-> FALSE, tracking |-> t]

\* remove_by_local: the id returned (NoId for None), whether the expect
\* panicked, and the tracker after the call.
remove_by_local(t, local) ==
    LET id == HashMap_get(t.local2shared, local)
        l2s == HashMap_remove(t.local2shared, local)
        r == SlotMap_remove(t.shared2local, id)
    IN  IF id = NoId
        THEN [id |-> NoId, panic |-> FALSE, tracking |-> t]
        ELSE IF r.value = NoEntity
        THEN [id |-> NoId, panic |-> TRUE,
              tracking |-> [shared2local |-> r.map, local2shared |-> l2s]]
        ELSE [id |-> inner_to_shared(id), panic |-> FALSE,
              tracking |-> [shared2local |-> r.map, local2shared |-> l2s]]

\* remove_by_shared: the id and entity returned, whether the expect
\* panicked, and the tracker after the call.
remove_by_shared(t, shared) ==
    LET r == SlotMap_remove(t.shared2local, shared_to_inner(shared))
        e == r.value
    IN  IF e = NoEntity
        THEN [id |-> NoId, entity |-> NoEntity, panic |-> FALSE, tracking |-> t]
        ELSE IF HashMap_get(t.local2shared, e) = NoId
        THEN [id |-> NoId, entity |-> NoEntity, panic |-> TRUE,
              tracking |-> [shared2local |-> r.map,
                            local2shared |-> t.local2shared]]
        ELSE [id |-> shared, entity |-> e, panic |-> FALSE,
              tracking |-> [shared2local |-> r.map,
                            local2shared |-> HashMap_remove(t.local2shared, e)]]

get_by_shared(t, shared) == SlotMap_get(t.shared2local, shared_to_inner(shared))

get_by_local(t, local) ==
    LET inner == HashMap_get(t.local2shared, local)
    IN  IF inner = NoId THEN NoId ELSE inner_to_shared(inner)

(***************************************************************************)
(* The match world.  World::spawn hands out a handle that no earlier       *)
(* entity had (Bevy reuses an index only under a new generation), so a     *)
(* handle is a counter value.                                              *)
(***************************************************************************)
Entities == 1..MaxEntities
Coord == 0..MaxCoord

\* init_msg.clients: the two client identities of the match, and the
\* ClientInfo records the handshake spawned for them.
ClientIds == {1, 2}
clients == ClientIds

\* detection.rs: const MIN_DETECTION (2_000 m).
MIN_DETECTION == 1
\* The BaseDetection of a torpedo (2_000 m).
TorpedoBaseDetection == 1
\* fire_bullets: update_firing_detection_timer (20 s).
FiringDetectionSecs == 2
\* One tick of Time::delta.
Dt == 1
\* The speed of a torpedo, in steps of the line per tick.
TorpedoSpeed == 1
\* f32::MAX
F32_MAX == 1000
\* initalize_game: the radius of the smoke puff in the middle (2_000 m).
StartupPuffRadius == 1

(***************************************************************************)
(* Ship templates.  The numbers are data (ShipTemplate::detection,         *)
(* detection_when_firing_through_smoke, the turret's max_range, the        *)
(* torpedo battery and the smoke consumable), scaled to the model's line:  *)
(* "kiev" carries torpedoes and smoke, "bismarck" and "nagato" neither;    *)
(* the far end of the line is out of the reach of the guns of "nagato".    *)
(***************************************************************************)
TemplateIds == {"kiev", "bismarck"}

ShipTemplate(id) ==
    IF id = "kiev"
    THEN [detection |-> 1, detection_when_firing_through_smoke |-> 1,
          max_range |-> 2, torpedoes |-> TRUE, torps_per_volley |-> 1,
          smoke |-> TRUE, smoke_radius |-> 0,
          volleys |-> 1, reload |-> 1, smoke_cooldown |-> 1, smoke_charges |-> 1]
    ELSE IF id = "nagato"
    THEN [detection |-> 1, detection_when_firing_through_smoke |-> 1,
          max_range |-> 2, torpedoes |-> FALSE, torps_per_volley |-> 0,
          smoke |-> FALSE, smoke_radius |-> 0,
          volleys |-> 0, reload |-> 0, smoke_cooldown |-> 0, smoke_charges |-> 0]
    ELSE [detection |-> 2, detection_when_firing_through_smoke |-> 2,
          max_range |-> 2, torpedoes |-> FALSE, torps_per_volley |-> 0,
          smoke |-> FALSE, smoke_radius |-> 0,
          volleys |-> 0, reload |-> 0, smoke_cooldown |-> 0, smoke_charges |-> 0]

(***************************************************************************)
(* bevy::time::Timer in TimerMode::Once: the time remaining and whether it *)
(* has finished.  A finished timer ignores further ticks.                  *)
(***************************************************************************)
Timer_new(duration) == [remaining |-> duration, finished |-> FALSE]

\* A variant of Timer_tick under which a running timer never finishes.
Timer_tick_NeverFinishes(t, delta) ==
    IF t.finished THEN t
    ELSE [remaining |-> Max(0, t.remaining - delta), finished |-> FALSE]

Timer_tick(t, delta) ==
    IF t.finished THEN t
    ELSE [remaining |-> Max(0, t.remaining - delta),
          finished |-> t.remaining - delta <= 0]

\* Timer::new(Duration::ZERO, Once).tick(Duration::MAX)
Timer_elapsed == [remaining |-> 0, finished |-> TRUE]

(***************************************************************************)
(* Components.  kind tells which bundle the entity was spawned with:       *)
(*   ship:    Ship, TurretStates, BaseDetection, DetectionStatus,          *)
(*            CanDetect, Health, Team, Transform, Velocity                 *)
(*            (+ SmokeConsumableState when the template has smoke)         *)
(*   bullet:  Bullet, Team, Transform                                      *)
(*   torpedo: Torpedo, Team, Transform, Velocity, BaseDetection,           *)
(*            DetectionStatus                                              *)
(*   smoke:   SmokePuff, Transform                                         *)
(***************************************************************************)
NoTeam == 0

NoComponents ==
    [kind |-> "none", team |-> NoTeam, tmpl |-> "none", pos |-> 0, vel |-> 0,
     base_detection |-> 0, is_detected |-> FALSE,
     detection_increased_by_firing |-> Timer_elapsed,
     detection_increased_by_firing_at_range |-> 0, radius |-> 0]

Alive == {e \in Entities : world[e].kind # "none"}
Ships == {e \in Alive : world[e].kind = "ship"}
HasDetectionStatus(e) == world[e].kind \in {"ship", "torpedo"}
HasVelocity(e) == world[e].kind \in {"ship", "torpedo"}
HasTeam(e) == world[e].kind \in {"ship", "bullet", "torpedo"}

\* A message on MessagesSend: the client it is for, its variant, the id it
\* is about, the owning_ship of a SpawnBullet or SpawnTorpedo, and the
\* currently_detected of a SetDetection.
Msg(client, type, id, owner, flag) ==
    [client |-> client, type |-> type, id |-> id, owner |-> owner, flag |-> flag]

\* The ascending sequence of a finite set of numbers (a query's iteration).
RECURSIVE SeqOf(_)
SeqOf(S) == IF S = {} THEN <<>>
            ELSE LET x == CHOOSE y \in S : \A z \in S : y <= z
                 IN  <<x>> \o SeqOf(S \ {x})

\* for cl in clients { msgs_tx.send(..) }: one message per ClientInfo.
ToEachClient(type, id, owner, flag) ==
    [i \in 1..Cardinality(clients) |->
        Msg(SeqOf(clients)[i], type, id, owner, flag)]

RECURSIVE Concat(_)
Concat(ss) == IF ss = <<>> THEN <<>> ELSE Head(ss) \o Concat(Tail(ss))

\* No call of read_from_stream is under way.
ReaderIdle ==
    [pc |-> "idle", stream |-> <<>>, length_prefix |-> None, data |-> None,
     taken |-> 0, result |-> "none"]

\* The match process when the lobby has spawned it and written the init
\* message to its stdin; both clients are connected to the lobby.
ProcessIdle ==
    /\ mainPc = "recv_init"
    /\ hsCount = 0
    /\ pending = <<>>
    /\ stdin = <<[client |-> 0, kind |-> "Init", id |-> 0]>>
    /\ stdinOpen = TRUE
    /\ handlerAlive = FALSE
    /\ msgs_rx = <<>>
    /\ msgs_tx = <<>>
    /\ pipe = <<>>
    /\ pipeOpen = TRUE
    /\ infos = {}
    /\ clientInfos = {}
    /\ sentLog = <<>>
    /\ exitRequested = FALSE
    /\ exitCode = None
    /\ ticks = 0
    /\ connected = {1, 2}
    /\ routerAlive = TRUE
    /\ clientSent = 0
    /\ hsError = "none"
    /\ forwarderAlive = TRUE

\* The components of a ship that the messages of its owner act on:
\*   move_order       MoveOrder::waypoints, None without the component
\*   fire_target      FireTarget::ship, NoEntity without the component
\*   torpedo_reloads  Ship::torpedo_reloads, one Timer per volley
\*   smoke            SmokeConsumableState, None without the component
\*   smoke_deploying  whether the ship has a SmokeDeploying
\* No call of clamp_angle yet.
ClampIdle == [called |-> FALSE, from |-> 0, to |-> 0, v |-> 0, out |-> 0]

\* No ship with torpedo tubes yet.
TubesIdle == [spawned |-> FALSE]

\* No turret yet.
TurretIdle == [instance |-> 0]
SmokeIdle == [spawned |-> FALSE]
ArenaIdle == [spawned |-> FALSE]
SchedIdle == [stage |-> "PreStartup"]
MoverIdle == [spawned |-> FALSE]
MatchmakerIdle == [spawned |-> FALSE]

NoShipState ==
    [move_order |-> None, fire_target |-> NoEntity, torpedo_reloads |-> <<>>,
     smoke |-> [present |-> FALSE, cooldown_timer |-> Timer_elapsed,
               charges_unused |-> None],
     smoke_deploying |-> FALSE]

MatchIdle ==
    /\ world = [e \in Entities |-> NoComponents]
    /\ nextEntity = 1
    /\ cmdQueue = <<>>
    /\ pc = "idle"
    /\ cur = [entity |-> NoEntity, shared |-> NoId]
    /\ outbox = <<>>
    /\ destroySent = {}
    /\ idOf = [e \in Entities |-> NoId]
    /\ kindOf = [e \in Entities |-> "none"]
    /\ shipState = [e \in Entities |-> NoShipState]
    /\ ProcessIdle
    /\ reader = ReaderIdle
    /\ rotation = [e \in Entities |-> 1]
    /\ turretStates = [e \in Entities |-> <<>>]
    /\ clamped = ClampIdle
    /\ gun = TurretIdle
    /\ smokeUnit = SmokeIdle
    /\ arena = ArenaIdle
    /\ sched = SchedIdle
    /\ mover = MoverIdle
    /\ mm = MatchmakerIdle
    /\ tubes = TubesIdle

(***************************************************************************)
(* Commands (spawn_entity.rs, networking.rs).  A system queues commands;   *)
(* they are applied, in order, at the next sync point.  The record of a    *)
(* command holds its fields; the fields a command does not have are 0.     *)
(***************************************************************************)
Command(type, team, tmpl, pos, entity, shared, range) ==
    [type |-> type, team |-> team, tmpl |-> tmpl, pos |-> pos,
     entity |-> entity, shared |-> shared, range |-> range]

SpawnShipCommand(team, ship_base, pos) ==
    Command("SpawnShip", team, ship_base, pos, NoEntity, NoId, 0)

\* bullet.owning_ship is `entity'; update_firing_detection_timer is always
\* Some(20 s) and update_firing_detection_range Some(max_range).
SpawnBulletCommand(team, owning_ship, range) ==
    Command("SpawnBullet", team, "none", 0, owning_ship, NoId, range)

SpawnSmokePuffCommand(pos, radius) ==
    Command("SpawnSmokePuff", NoTeam, "none", pos, NoEntity, NoId, radius)

DespawnNetworkedEntityCommand(entity) ==
    Command("Despawn", NoTeam, "none", 0, entity, NoId, 0)

\* dir is kept in the pos field: +1 or -1 along the line.
LaunchTorpedoVolleyCommand(msg_sender, owning_ship_id, dir) ==
    Command("LaunchTorpedoVolley", msg_sender, "none", dir, NoEntity, owning_ship_id, 0)

ShipComponents(team, ship_base, pos) ==
    [kind |-> "ship", team |-> team, tmpl |-> ship_base, pos |-> pos, vel |-> 0,
     base_detection |-> ShipTemplate(ship_base).detection,
     is_detected |-> FALSE,
     detection_increased_by_firing |-> Timer_elapsed,
     detection_increased_by_firing_at_range |-> 0, radius |-> 0]

\* A bullet's Transform and flight are left out.
BulletComponents(team) ==
    [NoComponents EXCEPT !.kind = "bullet", !.team = team]

TorpedoComponents(team, pos, vel) ==
    [kind |-> "torpedo", team |-> team, tmpl |-> "none", pos |-> pos, vel |-> vel,
     base_detection |-> TorpedoBaseDetection,
     is_detected |-> FALSE,
     detection_increased_by_firing |-> Timer_elapsed,
     detection_increased_by_firing_at_range |-> 0, radius |-> 0]

SmokePuffComponents(pos, radius) ==
    [NoComponents EXCEPT !.kind = "smoke", !.pos = pos, !.radius = radius]

\* The tail of every command: the command leaves the queue and the
\* process is back between operations.
Done ==
    /\ cmdQueue' = Tail(cmdQueue)
    /\ pc' = IF Tail(cmdQueue) = <<>> THEN "idle" ELSE "flush"

Applying(type) ==
    /\ ~panicked
    /\ pc \in {"idle", "flush"}
    /\ cmdQueue # <<>>
    /\ Head(cmdQueue).type = type

(***************************************************************************)
(* SpawnShipCommand::apply                                                 *)
(***************************************************************************)
ApplySpawnShip ==
    /\ Applying("SpawnShip")
    /\ LET cmd == Head(cmdQueue)
           entity == nextEntity
           r == insert(tracking, entity)
       IN  /\ world' = [world EXCEPT ![entity] =
                           ShipComponents(cmd.team, cmd.tmpl, cmd.pos)]
           /\ nextEntity' = nextEntity + 1
           /\ tracking' = r.tracking
           /\ outbox' = ToEachClient("SpawnShip", r.id, NoId, FALSE)
           /\ idOf' = [idOf EXCEPT ![entity] = r.id]
           /\ kindOf' = [kindOf EXCEPT ![entity] = "ship"]
    /\ Done
    /\ UNCHANGED <<panicked, issued, retired, cur, destroySent>>

(***************************************************************************)
(* SpawnBulletCommand::apply.  The bullet is spawned first; the two        *)
(* unwraps (the owning ship's DetectionStatus, the owning ship's shared    *)
(* id) panic when the owning ship is gone.                                 *)
(***************************************************************************)
ApplySpawnBullet ==
    /\ Applying("SpawnBullet")
    /\ LET cmd == Head(cmdQueue)
           entity == nextEntity
           owner == cmd.entity
           spawned == [world EXCEPT ![entity] = BulletComponents(cmd.team)]
           det == spawned[owner]
           r == insert(tracking, entity)
           owning_ship == get_by_local(r.tracking, owner)
       IN  /\ nextEntity' = nextEntity + 1
           /\ kindOf' = [kindOf EXCEPT ![entity] = "bullet"]
           /\ IF ~(det.kind \in {"ship", "torpedo"})
              THEN \* get_mut::<DetectionStatus>(owning_ship).unwrap()
                   /\ world' = spawned
                   /\ panicked' = TRUE
                   /\ outbox' = <<>>
                   /\ UNCHANGED <<tracking, idOf>>
              ELSE /\ world' = [spawned EXCEPT
                        ![owner].detection_increased_by_firing =
                            Timer_new(Max(FiringDetectionSecs, @.remaining)),
                        ![owner].detection_increased_by_firing_at_range =
                            Max(@, cmd.range)]
                   /\ tracking' = r.tracking
                   /\ idOf' = [idOf EXCEPT ![entity] = r.id]
                   /\ IF owning_ship = NoId
                      THEN \* get_by_local(owning_ship).unwrap()
                           /\ panicked' = TRUE
                           /\ outbox' = <<>>
                      ELSE /\ panicked' = FALSE
                           /\ outbox' = ToEachClient("SpawnBullet", r.id,
                                                     owning_ship, FALSE)
    /\ Done
    /\ UNCHANGED <<issued, retired, cur, destroySent>>

(***************************************************************************)
(* SpawnSmokePuffCommand::apply                                            *)
(***************************************************************************)
ApplySpawnSmokePuff ==
    /\ Applying("SpawnSmokePuff")
    /\ LET cmd == Head(cmdQueue)
           entity == nextEntity
           r == insert(tracking, entity)
       IN  /\ world' = [world EXCEPT ![entity] =
                           SmokePuffComponents(cmd.pos, cmd.range)]
           /\ nextEntity' = nextEntity + 1
           /\ tracking' = r.tracking
           /\ outbox' = ToEachClient("SpawnSmokePuff", r.id, NoId, FALSE)
           /\ idOf' = [idOf EXCEPT ![entity] = r.id]
           /\ kindOf' = [kindOf EXCEPT ![entity] = "smoke"]
    /\ Done
    /\ UNCHANGED <<panicked, issued, retired, cur, destroySent>>

(***************************************************************************)
(* LaunchTorpedoVolleyCommand::apply.  The id must resolve, the sender     *)
(* must be the Team of the entity and the entity a ship with torpedoes;    *)
(* whether a volley is reloaded and the direction lies in a firing arc     *)
(* (lines 411-430) is the input `ready'.  Each torpedo of the volley is    *)
(* spawned, registered and announced in turn; the message names the id the *)
(* client sent as owning_ship.                                             *)
(***************************************************************************)
RECURSIVE SpawnTorpedoes(_, _, _, _, _, _, _)
\* The state after spawning torpedoes k..n of a volley: st holds the world,
\* the tracker, the next handle, the messages and the ids given so far.
SpawnTorpedoes(st, k, n, team, pos, vel, owning_ship_id) ==
    IF k > n THEN st
    ELSE LET entity == st.nextEntity
             r == insert(st.tracking, entity)
         IN  SpawnTorpedoes(
                [world |-> [st.world EXCEPT ![entity] =
                                TorpedoComponents(team, pos, vel)],
                 tracking |-> r.tracking,
                 nextEntity |-> entity + 1,
                 outbox |-> st.outbox \o
                            ToEachClient("SpawnTorpedo", r.id, owning_ship_id, FALSE),
                 idOf |-> [st.idOf EXCEPT ![entity] = r.id],
                 kindOf |-> [st.kindOf EXCEPT ![entity] = "torpedo"]],
                k + 1, n, team, pos, vel, owning_ship_id)

ApplyLaunchTorpedoVolley(ready) ==
    /\ Applying("LaunchTorpedoVolley")
    /\ LET cmd == Head(cmdQueue)
           msg_sender == cmd.team
           owning_ship_local == get_by_shared(tracking, cmd.shared)
           ship == world[owning_ship_local]
           n == ShipTemplate(ship.tmpl).torps_per_volley
           st == SpawnTorpedoes(
                    [world |-> world, tracking |-> tracking,
                     nextEntity |-> nextEntity, outbox |-> <<>>,
                     idOf |-> idOf, kindOf |-> kindOf],
                    1, n, msg_sender, ship.pos, cmd.pos * TorpedoSpeed, cmd.shared)
       IN  IF \/ owning_ship_local = NoEntity
              \/ ~HasTeam(owning_ship_local)
              \/ ship.team # msg_sender
              \/ ship.kind # "ship"
              \/ ~ShipTemplate(ship.tmpl).torpedoes
              \/ ~ready
           THEN /\ outbox' = <<>>
                /\ UNCHANGED <<world, tracking, nextEntity, idOf, kindOf>>
           ELSE /\ world' = st.world
                /\ tracking' = st.tracking
                /\ nextEntity' = st.nextEntity
                /\ outbox' = st.outbox
                /\ idOf' = st.idOf
                /\ kindOf' = st.kindOf
    /\ Done
    /\ UNCHANGED <<panicked, issued, retired, cur, destroySent>>

(***************************************************************************)
(* DespawnNetworkedEntityCommand::apply, statement by statement:           *)
(*   line 24      world.try_despawn(entity)                                *)
(*   lines 26-31  remove_by_local(entity), return when it is None          *)
(*   lines 33-40  DestroyEntity(shared) to every client                    *)
(* No other operation runs between the three steps.                        *)
(***************************************************************************)
DespawnFree ==
    /\ Applying("Despawn")
    /\ world' = [world EXCEPT ![Head(cmdQueue).entity] = NoComponents]
    /\ pc' = "despawn_retire"
    /\ cur' = [entity |-> Head(cmdQueue).entity, shared |-> NoId]
    /\ outbox' = <<>>
    /\ UNCHANGED <<tracking, panicked, issued, retired, nextEntity, cmdQueue,
                   destroySent, idOf, kindOf>>

DespawnRetire ==
    /\ ~panicked
    /\ pc = "despawn_retire"
    /\ LET r == remove_by_local(tracking, cur.entity)
       IN  /\ tracking' = r.tracking
           /\ panicked' = r.panic
           /\ IF r.id = NoId
              THEN /\ cur' = [entity |-> NoEntity, shared |-> NoId]
                   /\ Done
              ELSE /\ cur' = [cur EXCEPT !.shared = r.id]
                   /\ pc' = "despawn_notify"
                   /\ UNCHANGED <<cmdQueue>>
    /\ UNCHANGED <<issued, retired, world, nextEntity, outbox, destroySent,
                   idOf, kindOf>>

\* A variant that tells the first client only.
DespawnNotify_OneClient ==
    /\ ~panicked
    /\ pc = "despawn_notify"
    /\ outbox' = <<Msg(1, "DestroyEntity", cur.shared, NoId, FALSE)>>
    /\ destroySent' = destroySent \cup {<<1, cur.shared>>}
    /\ cur' = [entity |-> NoEntity, shared |-> NoId]
    /\ Done
    /\ UNCHANGED <<tracking, panicked, issued, retired, world, nextEntity,
                   idOf, kindOf>>

DespawnNotify ==
    /\ ~panicked
    /\ pc = "despawn_notify"
    /\ outbox' = ToEachClient("DestroyEntity", cur.shared, NoId, FALSE)
    /\ destroySent' = destroySent \cup {<<cl, cur.shared>> : cl \in clients}
    /\ cur' = [entity |-> NoEntity, shared |-> NoId]
    /\ Done
    /\ UNCHANGED <<tracking, panicked, issued, retired, world, nextEntity,
                   idOf, kindOf>>

(***************************************************************************)
(* Systems.  A system runs to completion between operations; the commands  *)
(* it queues wait in cmdQueue.  Conditions that depend on parts of the     *)
(* world the model leaves out (health, turrets, flight time, hull boxes,   *)
(* timers of consumables) are inputs.                                      *)
(***************************************************************************)
Running ==
    /\ ~panicked
    /\ pc = "idle"

\* The entities a queue of commands can spawn when it is applied.
RECURSIVE Spawns(_)
Spawns(cmds) ==
    IF cmds = <<>> THEN 0
    ELSE Spawns(Tail(cmds)) +
         (CASE Head(cmds).type \in {"SpawnShip", "SpawnBullet", "SpawnSmokePuff"} -> 1
            [] Head(cmds).type = "LaunchTorpedoVolley" ->
                   ShipTemplate("kiev").torps_per_volley
            [] OTHER -> 0)

\* The commands of a system wait for the next sync point.  The schedule
\* puts one right after a system that another system is ordered behind
\* (synced: Startup's initalize_game, FixedUpdate's read_messages, and
\* move_bullets and collide_bullets, which fire_bullets is ordered behind).
\* The other systems of Update are unordered against fire_bullets: their
\* commands wait, and the commands of fire_bullets are applied behind them
\* (joins).
Queue(cmds, synced, joins) ==
    /\ Len(cmdQueue) + Len(cmds) <= MaxQueue
    /\ cmdQueue = <<>> \/ joins
    /\ nextEntity + Spawns(cmdQueue \o cmds) <= MaxEntities + 1
    /\ cmdQueue' = cmdQueue \o cmds
    /\ pc' = IF synced THEN "flush" ELSE "idle"
    /\ outbox' = <<>>
    /\ UNCHANGED <<tracking, panicked, issued, retired, world, nextEntity,
                   cur, destroySent, idOf, kindOf>>

\* The ships array of initalize_game, cut to one ship a team.
Fleets == {<<"kiev", "bismarck">>, <<"kiev", "kiev">>}

\* pos_base of a team: the two fleets start at the two ends of the line.
pos_base(team) == IF team = 1 THEN MaxCoord ELSE 0

\* initalize_game: a ship for each of the two clients, then the smoke puff
\* in the middle of the map.
initalize_game(ships) ==
    /\ Running
    /\ nextEntity = 1
    /\ cmdQueue = <<>>
    /\ Queue(<<SpawnShipCommand(1, ships[1], pos_base(1)),
               SpawnShipCommand(2, ships[2], pos_base(2)),
               SpawnSmokePuffCommand(MaxCoord \div 2, StartupPuffRadius)>>,
             TRUE, FALSE)

\* fire_bullets: a ship whose turret is loaded and aimed fires.
fire_bullets(ship) ==
    /\ Running
    /\ ship \in Ships
    /\ Queue(<<SpawnBulletCommand(world[ship].team, ship,
                                  ShipTemplate(world[ship].tmpl).max_range)>>,
             FALSE, TRUE)

\* deploy_smoke: a ship that is deploying smoke leaves a puff where it is.
deploy_smoke(smoker) ==
    /\ Running
    /\ smoker \in Ships
    /\ ShipTemplate(world[smoker].tmpl).smoke
    /\ Queue(<<SpawnSmokePuffCommand(world[smoker].pos,
                                     ShipTemplate(world[smoker].tmpl).smoke_radius)>>,
             FALSE, FALSE)

\* dissapate_smoke_puffs: a puff whose dissapation timer finished.
dissapate_smoke_puffs(puff) ==
    /\ Running
    /\ puff \in Alive
    /\ world[puff].kind = "smoke"
    /\ Queue(<<DespawnNetworkedEntityCommand(puff)>>, FALSE, FALSE)

\* despawn_old_torpedoes: a torpedo beyond its range.  The system is not
\* ordered against collide_torpedoes, so its command may follow one that
\* waits for the same torpedo.
despawn_old_torpedoes(torp) ==
    /\ Running
    /\ torp \in Alive
    /\ world[torp].kind = "torpedo"
    /\ Queue(<<DespawnNetworkedEntityCommand(torp)>>, FALSE, TRUE)

\* move_bullets: a bullet that fell below the water.
move_bullets(bullet) ==
    /\ Running
    /\ bullet \in Alive
    /\ world[bullet].kind = "bullet"
    /\ Queue(<<DespawnNetworkedEntityCommand(bullet)>>, TRUE, FALSE)

\* collide_torpedoes / collide_bullets: a projectile hits a ship of the
\* other team; the ship is despawned too when the hit sinks it.
Collide(kind, projectile, ship, sunk, synced) ==
    /\ Running
    /\ projectile \in Alive
    /\ world[projectile].kind = kind
    /\ ship \in Ships
    /\ world[projectile].team # world[ship].team
    /\ Queue(<<DespawnNetworkedEntityCommand(projectile)>> \o
             (IF sunk THEN <<DespawnNetworkedEntityCommand(ship)>> ELSE <<>>),
             synced, FALSE)

collide_torpedoes(torp, ship, sunk) ==
    Collide("torpedo", torp, ship, sunk, FALSE)

collide_bullets(bullet, ship, sunk) ==
    Collide("bullet", bullet, ship, sunk, TRUE)

\* The ids a client can put in a message: the ids it was told about, live
\* or destroyed, their even-version aliases, and the null id.
ClientIdArgs ==
    LET known == {idOf[e] : e \in {x \in Entities : kindOf[x] = "ship"}} \ {NoId}
    IN  known \cup {<<id[1], id[2] - 1>> : id \in known} \cup {NoId}

\* read_messages, Client2Match::LaunchTorpedoVolley { ship, dir }.
read_messages_LaunchTorpedoVolley(msg_sender, ship, dir) ==
    /\ Running
    /\ Queue(<<LaunchTorpedoVolleyCommand(msg_sender, ship, dir)>>,
             TRUE, FALSE)

\* apply_velocity: every entity with a Velocity moves by its velocity
\* times the tick.  A torpedo keeps the velocity it was launched with; the
\* velocity of a ship is what update_ship_velocity made of its orders, the
\* input v.  The line ends at 0 and MaxCoord.
apply_velocity(v) ==
    /\ Running
    /\ world' = [e \in Entities |->
                   IF e \in Alive /\ HasVelocity(e)
                   THEN [world[e] EXCEPT !.pos =
                           LET vel == IF world[e].kind = "ship" THEN v[e]
                                      ELSE world[e].vel
                           IN  Max(0, Min(MaxCoord, @ + vel * Dt))]
                   ELSE world[e]]
    /\ outbox' = <<>>
    /\ UNCHANGED <<tracking, panicked, issued, retired, nextEntity, cmdQueue,
                   pc, cur, destroySent, idOf, kindOf>>

(***************************************************************************)
(* Replication systems (networking.rs).  Each system is the sequence of    *)
(* messages it puts on MessagesSend; none of them writes the world.        *)
(***************************************************************************)
\* for local in query { let Some(shared) = get_by_local(local) else
\* continue; for cl in targets[local] { send(..) } }, with targets the
\* clients each entity's messages go to.
ForEachTracked(query, targets, type) ==
    LET es == SeqOf(query)
    IN  Concat([i \in 1..Len(es) |->
            LET local == es[i]
                shared == get_by_local(tracking, local)
                cls == SeqOf(targets[local])
            IN  IF shared = NoId THEN <<>>
                ELSE [j \in 1..Len(cls) |-> Msg(cls[j], type, shared, NoId, FALSE)]])

\* A variant of clients_to_update that never withholds.
clients_to_update_Always(local) == clients

\* clients_to_update of send_transform_updates and send_velocity_updates
clients_to_update(local) ==
    IF HasDetectionStatus(local) /\ HasTeam(local) /\ ~world[local].is_detected
    THEN {world[local].team}
    ELSE clients

AllClients(local) == clients

OwnerOnly(local) == {world[local].team}

\* changed: the entities the Changed<Transform> filter lets through.
send_transform_updates(changed) ==
    ForEachTracked(changed \cap Alive, [e \in Entities |-> clients_to_update(e)], "SetTrans")

send_velocity_updates(changed) ==
    ForEachTracked({e \in changed \cap Alive : HasVelocity(e)},
                   [e \in Entities |-> clients_to_update(e)], "SetVelocity")

send_turret_state_updates ==
    ForEachTracked(Ships, [e \in Entities |-> AllClients(e)], "SetTurretDirs")

\* changed: the ships the Changed<Health> filter lets through.
send_health_updates(changed) ==
    ForEachTracked(changed \cap Ships, [e \in Entities |-> AllClients(e)], "SetHealth")

send_torpedo_reload_updates ==
    ForEachTracked({s \in Ships : ShipTemplate(world[s].tmpl).torpedoes},
                   [e \in Entities |-> OwnerOnly(e)], "SetReloadedTorps")

send_smoke_consumable_state_updates ==
    ForEachTracked({s \in Ships : ShipTemplate(world[s].tmpl).smoke},
                   [e \in Entities |-> AllClients(e)], "SetSmokeConsumableState")

\* One run of the UpdateClientsSystem set in FixedUpdate.  The systems of
\* the set read the same world, so the run is one step.  The transforms
\* and healths that passed the Changed filters are inputs.
UpdateClientsSystem(changed_transforms, changed_healths) ==
    /\ Running
    /\ outbox' = send_transform_updates(changed_transforms)
                 \o send_velocity_updates(changed_transforms)
                 \o send_turret_state_updates
                 \o send_health_updates(changed_healths)
                 \o send_torpedo_reload_updates
                 \o send_smoke_consumable_state_updates
    /\ UNCHANGED <<tracking, panicked, issued, retired, world, nextEntity,
                   cmdQueue, pc, cur, destroySent, idOf, kindOf>>

\* update_ship_velocity: the ships in reached have reached the next
\* waypoint of their MoveOrder; their owner is sent the remaining order.
update_ship_velocity(reached) ==
    /\ Running
    /\ reached # {}
    /\ reached \subseteq Ships
    /\ outbox' = ForEachTracked(reached, [e \in Entities |-> OwnerOnly(e)], "SetMoveOrder")
    /\ UNCHANGED <<tracking, panicked, issued, retired, world, nextEntity,
                   cmdQueue, pc, cur, destroySent, idOf, kindOf>>

(***************************************************************************)
(* Detection (detection.rs).                                               *)
(***************************************************************************)
\* A variant in which smoke never blocks a line of sight.
cast_line_segment_Clear(a, b, w) == FALSE

\* math_utils::cast_line_segment(..).is_some(): whether the segment from a
\* to b meets the circle of some live smoke puff.  On the line a circle is
\* the interval [pos - radius, pos + radius].
cast_line_segment(a, b, w) ==
    \E p \in Entities :
        /\ w[p].kind = "smoke"
        /\ w[p].pos - w[p].radius <= Max(a, b)
        /\ Min(a, b) <= w[p].pos + w[p].radius


\* A variant that reads `<' for `<=' in the last comparison.
detector_detects_detectee_Strict(detector_pos, pos, base_detection, base_detection_when_firing_through_smoke, detection_increased_by_firing, w) ==
    LET blocked_by_smoke == cast_line_segment(detector_pos, pos, w)
        detection ==
            IF detection_increased_by_firing # None
            THEN IF blocked_by_smoke
                 THEN base_detection_when_firing_through_smoke
                 ELSE detection_increased_by_firing
            ELSE IF blocked_by_smoke THEN MIN_DETECTION
            ELSE base_detection
    IN  Abs(detector_pos - pos) < Max(detection, MIN_DETECTION)

detector_detects_detectee(detector_pos, pos, base_detection, base_detection_when_firing_through_smoke, detection_increased_by_firing, w) ==
    LET blocked_by_smoke == cast_line_segment(detector_pos, pos, w)
        detection ==
            IF detection_increased_by_firing # None
            THEN IF blocked_by_smoke
                 THEN base_detection_when_firing_through_smoke
                 ELSE detection_increased_by_firing
            ELSE IF blocked_by_smoke THEN MIN_DETECTION
            ELSE base_detection
    IN  Abs(detector_pos - pos) <= Max(detection, MIN_DETECTION)

\* A variant of the loop body that leaves the countdown running when the
\* detectee is not detected.
UpdateDetectee_KeepsCountdown(w, detectee) ==
    LET status == w[detectee]
        detectee_is_ship == status.kind = "ship"
        ticked == IF detectee_is_ship
                  THEN Timer_tick(status.detection_increased_by_firing, Dt)
                  ELSE status.detection_increased_by_firing
        detection_increased_by_firing == detectee_is_ship /\ ~ticked.finished
        base_detection_when_firing_through_smoke ==
            IF detectee_is_ship
            THEN ShipTemplate(status.tmpl).detection_when_firing_through_smoke
            ELSE F32_MAX
        is_detected ==
            \E detector \in Entities :
                /\ w[detector].kind = "ship"
                /\ w[detector].team # status.team
                /\ detector_detects_detectee(
                      w[detector].pos, status.pos, status.base_detection,
                      base_detection_when_firing_through_smoke,
                      IF detection_increased_by_firing
                      THEN status.detection_increased_by_firing_at_range
                      ELSE None,
                      w)
    IN  [status EXCEPT
            !.is_detected = is_detected,
            !.detection_increased_by_firing = ticked]

\* The body of update_detection's loop for one detectee: its new
\* DetectionStatus.
UpdateDetectee(w, detectee) ==
    LET status == w[detectee]
        detectee_is_ship == status.kind = "ship"
        ticked == IF detectee_is_ship
                  THEN Timer_tick(status.detection_increased_by_firing, Dt)
                  ELSE status.detection_increased_by_firing
        detection_increased_by_firing == detectee_is_ship /\ ~ticked.finished
        base_detection_when_firing_through_smoke ==
            IF detectee_is_ship
            THEN ShipTemplate(status.tmpl).detection_when_firing_through_smoke
            ELSE F32_MAX
        is_detected ==
            \E detector \in Entities :
                /\ w[detector].kind = "ship"
                /\ w[detector].team # status.team
                /\ detector_detects_detectee(
                      w[detector].pos, status.pos, status.base_detection,
                      base_detection_when_firing_through_smoke,
                      IF detection_increased_by_firing
                      THEN status.detection_increased_by_firing_at_range
                      ELSE None,
                      w)
    IN  [status EXCEPT
            !.is_detected = is_detected,
            !.detection_increased_by_firing =
                IF is_detected THEN ticked ELSE Timer_new(0)]

\* A variant that notifies on every update in which the entity is detected.
update_detection_EveryTick ==
    /\ Running
    /\ LET detectees == {e \in Alive : HasDetectionStatus(e)}
           new == [e \in Entities |->
                     IF e \in detectees THEN UpdateDetectee(world, e)
                     ELSE world[e]]
           changed == {e \in detectees : new[e].is_detected}
           es == SeqOf(changed)
       IN  /\ world' = new
           /\ outbox' = Concat([i \in 1..Len(es) |->
                  LET shared == get_by_local(tracking, es[i])
                  IN  IF shared = NoId THEN <<>>
                      ELSE ToEachClient("SetDetection", shared, NoId,
                                        new[es[i]].is_detected)])
    /\ UNCHANGED <<tracking, panicked, issued, retired, nextEntity, cmdQueue,
                   pc, cur, destroySent, idOf, kindOf>>

update_detection ==
    /\ Running
    /\ LET detectees == {e \in Alive : HasDetectionStatus(e)}
           new == [e \in Entities |->
                     IF e \in detectees THEN UpdateDetectee(world, e)
                     ELSE world[e]]
           changed == {e \in detectees : new[e].is_detected # world[e].is_detected}
           es == SeqOf(changed)
       IN  /\ world' = new
           /\ outbox' = Concat([i \in 1..Len(es) |->
                  LET shared == get_by_local(tracking, es[i])
                  IN  IF shared = NoId THEN <<>>
                      ELSE ToEachClient("SetDetection", shared, NoId,
                                        new[es[i]].is_detected)])
    /\ UNCHANGED <<tracking, panicked, issued, retired, nextEntity, cmdQueue,
                   pc, cur, destroySent, idOf, kindOf>>

(***************************************************************************)
(* Client messages (networking.rs, read_messages) and the commands they    *)
(* queue.  read_messages runs alone in FixedUpdate, so its commands are    *)
(* applied before any other system runs.                                   *)
(***************************************************************************)
\* Option<SharedEntityId>::None (NoId is the null id, which a client can
\* send).
NoTarg == <<-1, -1>>

\* WrtsMatchMessage { client, msg } with msg a Client2Match: its variant,
\* its id (or ship) and, by variant, its waypoints (an order of one
\* waypoint), targ or dir.
ClientMsg(client, type, id, waypoints, targ, dir) ==
    [client |-> client, type |-> type, id |-> id, waypoints |-> waypoints,
     targ |-> targ, dir |-> dir]

\* commands.entity(local).insert(MoveOrder { waypoints }); the waypoint is
\* kept in the pos field.
InsertMoveOrder(local, waypoints) ==
    Command("InsertMoveOrder", NoTeam, "none", waypoints, local, NoId, 0)

\* commands.entity(local).insert(FireTarget { ship: targ_local }); the
\* target is kept in the range field.
InsertFireTarget(local, targ_local) ==
    Command("InsertFireTarget", NoTeam, "none", 0, local, NoId, targ_local)

\* commands.entity(local).try_remove::<FireTarget>()
TryRemoveFireTarget(local) ==
    Command("TryRemoveFireTarget", NoTeam, "none", 0, local, NoId, 0)

UseConsumableSmokeCommand(msg_sender, ship_id) ==
    Command("UseConsumableSmoke", msg_sender, "none", 0, NoEntity, ship_id, 0)

\* A variant that takes any sender for the owner.
OwnedBy_AnySender(local, msg_sender) ==
    /\ local # NoEntity
    /\ HasTeam(local)

\* teams.get(local).ok().and_then(|team| (team.0 == msg_sender).then_some(()))
\* .is_some(), for the local of a resolved id.
OwnedBy(local, msg_sender) ==
    /\ local # NoEntity
    /\ HasTeam(local)
    /\ world[local].team = msg_sender

\* One turn of the loop of read_messages: the commands queued for msg.
\* A bad id or a sender that is not the Team of the entity `continue's.
HandleMessage(m) ==
    LET msg_sender == m.client
        local == get_by_shared(tracking, m.id)
    IN  CASE m.type = "SetMoveOrder" ->
                 IF OwnedBy(local, msg_sender)
                 THEN <<InsertMoveOrder(local, m.waypoints)>>
                 ELSE <<>>
          [] m.type = "SetFireTarg" ->
                 IF ~OwnedBy(local, msg_sender) THEN <<>>
                 ELSE IF m.targ = NoTarg THEN <<TryRemoveFireTarget(local)>>
                 ELSE LET targ_local == get_by_shared(tracking, m.targ)
                      IN  IF targ_local # NoEntity /\ targ_local \in Ships
                          THEN <<InsertFireTarget(local, targ_local)>>
                          ELSE <<>>
          [] m.type = "LaunchTorpedoVolley" ->
                 <<LaunchTorpedoVolleyCommand(msg_sender, m.id, m.dir)>>
          [] m.type = "UseConsumableSmoke" ->
                 <<UseConsumableSmokeCommand(msg_sender, m.id)>>
          [] OTHER -> <<>>

\* read_messages with msgs waiting on the channel: try_recv until Empty.
read_messages(msgs) ==
    /\ Running
    /\ LET cmds == Concat([i \in 1..Len(msgs) |-> HandleMessage(msgs[i])])
       IN  IF Len(cmds) = 0
           THEN /\ outbox' = <<>>
                /\ UNCHANGED <<tracking, panicked, issued, retired, world,
                               nextEntity, cmdQueue, pc, cur, destroySent,
                               idOf, kindOf>>
           ELSE Queue(cmds, TRUE, FALSE)
    /\ UNCHANGED shipState

\* The components SpawnShipCommand gives a ship besides those of
\* ShipComponents: the reload timers of its volleys and, with a smoke
\* consumable, its SmokeConsumableState.
ShipState_new(ship_base) ==
    LET template == ShipTemplate(ship_base)
    IN  [move_order |-> None, fire_target |-> NoEntity,
         torpedo_reloads |-> [i \in 1..template.volleys |-> Timer_new(template.reload)],
         smoke |-> IF template.smoke
                   THEN [present |-> TRUE,
                         cooldown_timer |-> Timer_new(template.smoke_cooldown),
                         charges_unused |-> IF template.smoke_charges > 0
                                            THEN template.smoke_charges
                                            ELSE None]
                   ELSE [present |-> FALSE, cooldown_timer |-> Timer_elapsed,
                         charges_unused |-> None],
         smoke_deploying |-> FALSE]

\* SpawnShipCommand::apply with the components above.
SpawnShipCommand_apply ==
    /\ ApplySpawnShip
    /\ shipState' = [shipState EXCEPT
                        ![nextEntity] = ShipState_new(Head(cmdQueue).tmpl)]

\* commands.entity(local).insert(MoveOrder { .. }) applied.  Inserting on
\* an entity that no longer exists fails, and the default error handler
\* panics.
ApplyInsertMoveOrder ==
    /\ Applying("InsertMoveOrder")
    /\ LET cmd == Head(cmdQueue)
       IN  IF cmd.entity \in Alive
           THEN /\ shipState' = [shipState EXCEPT ![cmd.entity].move_order = cmd.pos]
                /\ Done
                /\ UNCHANGED panicked
           ELSE /\ panicked' = TRUE
                /\ UNCHANGED <<shipState, cmdQueue, pc>>
    /\ outbox' = <<>>
    /\ UNCHANGED <<tracking, issued, retired, world, nextEntity, cur,
                   destroySent, idOf, kindOf>>

\* commands.entity(local).insert(FireTarget { .. }) applied.
ApplyInsertFireTarget ==
    /\ Applying("InsertFireTarget")
    /\ LET cmd == Head(cmdQueue)
       IN  IF cmd.entity \in Alive
           THEN /\ shipState' = [shipState EXCEPT ![cmd.entity].fire_target = cmd.range]
                /\ Done
                /\ UNCHANGED panicked
           ELSE /\ panicked' = TRUE
                /\ UNCHANGED <<shipState, cmdQueue, pc>>
    /\ outbox' = <<>>
    /\ UNCHANGED <<tracking, issued, retired, world, nextEntity, cur,
                   destroySent, idOf, kindOf>>

\* commands.entity(local).try_remove::<FireTarget>() applied; it ignores an
\* entity that no longer exists.
ApplyTryRemoveFireTarget ==
    /\ Applying("TryRemoveFireTarget")
    /\ LET cmd == Head(cmdQueue)
       IN  shipState' = IF cmd.entity \in Alive
                        THEN [shipState EXCEPT ![cmd.entity].fire_target = NoEntity]
                        ELSE shipState
    /\ Done
    /\ outbox' = <<>>
    /\ UNCHANGED <<tracking, panicked, issued, retired, world, nextEntity, cur,
                   destroySent, idOf, kindOf>>

\* The first reloaded volley of a ship: .iter_mut().enumerate()
\* .find(|(_, timer)| timer.finished()); 0 when there is none.
ReloadedVolley(local) ==
    LET timers == shipState[local].torpedo_reloads
        done == {i \in DOMAIN timers : timers[i].finished}
    IN  IF done = {} THEN 0 ELSE CHOOSE i \in done : \A j \in done : i <= j

\* LaunchTorpedoVolleyCommand::apply with the reload timers: the volley is
\* launched when one is reloaded and dir lies in a firing arc (can_fire,
\* an input: ships have no heading on the line), and its timer is reset.
LaunchTorpedoVolleyCommand_apply(can_fire) ==
    /\ Applying("LaunchTorpedoVolley")
    /\ LET local == get_by_shared(tracking, Head(cmdQueue).shared)
           volley_idx == IF local = NoEntity THEN 0 ELSE ReloadedVolley(local)
       IN  /\ ApplyLaunchTorpedoVolley(volley_idx # 0 /\ can_fire)
           /\ shipState' =
                 IF nextEntity' # nextEntity
                 THEN [shipState EXCEPT ![local].torpedo_reloads[volley_idx] =
                          Timer_new(ShipTemplate(world[local].tmpl).reload)]
                 ELSE shipState

\* UseConsumableSmokeCommand::apply
ApplyUseConsumableSmoke ==
    /\ Applying("UseConsumableSmoke")
    /\ LET cmd == Head(cmdQueue)
           msg_sender == cmd.team
           ship_local == get_by_shared(tracking, cmd.shared)
           ship_smoke_state == shipState[ship_local].smoke
           smoke == ShipTemplate(world[ship_local].tmpl)
       IN  shipState' =
              IF ~OwnedBy(ship_local, msg_sender) THEN shipState
              ELSE IF shipState[ship_local].smoke_deploying THEN shipState
              ELSE IF ~(ship_local \in Ships /\ ship_smoke_state.present)
                   THEN shipState
              ELSE IF ship_smoke_state.charges_unused = 0 THEN shipState
              ELSE IF ship_smoke_state.cooldown_timer.finished
                   THEN [shipState EXCEPT
                           ![ship_local].smoke.charges_unused =
                               IF @ = None THEN None ELSE @ - 1,
                           ![ship_local].smoke.cooldown_timer =
                               Timer_new(smoke.smoke_cooldown),
                           ![ship_local].smoke_deploying = TRUE]
              ELSE shipState
    /\ Done
    /\ outbox' = <<>>
    /\ UNCHANGED <<tracking, panicked, issued, retired, world, nextEntity, cur,
                   destroySent, idOf, kindOf>>

\* torpedo_reloading: every reload timer of every ship ticks.
torpedo_reloading ==
    /\ Running
    /\ shipState' = [e \in Entities |->
                       IF e \in Ships
                       THEN [shipState[e] EXCEPT !.torpedo_reloads =
                               [i \in DOMAIN @ |-> Timer_tick(@[i], Dt)]]
                       ELSE shipState[e]]
    /\ outbox' = <<>>
    /\ UNCHANGED <<tracking, panicked, issued, retired, world, nextEntity,
                   cmdQueue, pc, cur, destroySent, idOf, kindOf>>

\* advance_smoke_cooldown: the cooldown of every SmokeConsumableState
\* Without<SmokeDeploying> ticks.
advance_smoke_cooldown ==
    /\ Running
    /\ shipState' = [e \in Entities |->
                       IF e \in Alive /\ shipState[e].smoke.present
                          /\ ~shipState[e].smoke_deploying
                       THEN [shipState[e] EXCEPT !.smoke.cooldown_timer =
                               Timer_tick(@, Dt)]
                       ELSE shipState[e]]
    /\ outbox' = <<>>
    /\ UNCHANGED <<tracking, panicked, issued, retired, world, nextEntity,
                   cmdQueue, pc, cur, destroySent, idOf, kindOf>>

\* world.try_despawn of DespawnNetworkedEntityCommand::apply frees every
\* component of the entity.
DespawnNetworkedEntityCommand_try_despawn ==
    /\ DespawnFree
    /\ shipState' = [shipState EXCEPT ![Head(cmdQueue).entity] = NoShipState]

(***************************************************************************)
(* The match.                                                              *)
(***************************************************************************)
Init ==
    /\ tracking = SharedEntityTracking_default
    /\ panicked = FALSE
    /\ issued = <<>>
    /\ retired = {}
    /\ MatchIdle

ApplyCommand ==
    \/ ApplySpawnShip
    \/ ApplySpawnBullet
    \/ ApplySpawnSmokePuff
    \/ \E ready \in BOOLEAN : ApplyLaunchTorpedoVolley(ready)
    \/ DespawnFree
    \/ DespawnRetire
    \/ DespawnNotify

Systems ==
    \/ \E ships \in Fleets : initalize_game(ships)
    \/ \E ship \in Entities : fire_bullets(ship)
    \/ \E smoker \in Entities : deploy_smoke(smoker)
    \/ \E puff \in Entities : dissapate_smoke_puffs(puff)
    \/ \E torp \in Entities : despawn_old_torpedoes(torp)
    \/ \E bullet \in Entities : move_bullets(bullet)
    \/ \E torp, ship \in Entities, sunk \in BOOLEAN :
           collide_torpedoes(torp, ship, sunk)
    \/ \E bullet, ship \in Entities, sunk \in BOOLEAN :
           collide_bullets(bullet, ship, sunk)
    \/ \E msg_sender \in ClientIds, ship \in ClientIdArgs, dir \in {-1, 1} :
           read_messages_LaunchTorpedoVolley(msg_sender, ship, dir)
    \/ update_detection
    \/ \E reached \in SUBSET Ships : update_ship_velocity(reached)
    \/ UpdateClientsSystem(Alive, Ships)

\* Spec: the life of the entities.  Ships stay where they were spawned.
Next ==
    /\ ApplyCommand \/ Systems
    /\ UNCHANGED <<shipState, processVars, reader, rotation, turretStates,
                   unitVars>>

Spec == Init /\ [][Next]_vars

\* DetectionSpec: ships that move, fire, lay smoke and launch torpedoes.
DetectionStep ==
    \/ \E ships \in Fleets : initalize_game(ships)
    \/ ApplySpawnShip
    \/ ApplySpawnSmokePuff
    \/ ApplySpawnBullet
    \/ \E ready \in BOOLEAN : ApplyLaunchTorpedoVolley(ready)
    \/ DespawnFree
    \/ DespawnRetire
    \/ DespawnNotify
    \/ \E ship \in Entities : fire_bullets(ship)
    \/ \E smoker \in Entities : deploy_smoke(smoker)
    \/ \E puff \in Entities : dissapate_smoke_puffs(puff)
    \/ \E msg_sender \in ClientIds, ship \in ClientIdArgs, dir \in {-1, 1} :
           read_messages_LaunchTorpedoVolley(msg_sender, ship, dir)
    \/ \E v \in [Ships -> {-1, 0, 1}] : apply_velocity(v)
    \/ update_detection
    \/ UpdateClientsSystem(Alive, Ships)

\* A run of DetectionSpec spawns at most MaxDetectionEntities entities.
DetectionNext ==
    /\ DetectionStep
    /\ nextEntity + Spawns(cmdQueue') <= MaxDetectionEntities + 1
    /\ UNCHANGED <<shipState, processVars, reader, rotation, turretStates,
                   unitVars>>

DetectionSpec == Init /\ [][DetectionNext]_vars

(***************************************************************************)
(* CommandSpec: the messages of the clients against ships that are         *)
(* spawned, launch torpedoes and are sunk.                                 *)
(***************************************************************************)
\* The ids of the messages: the ids of the ships spawned so far, live or
\* destroyed, and the null id.
MsgIdArgs ==
    ({idOf[e] : e \in {x \in Entities : kindOf[x] = "ship"}} \ {NoId}) \cup {NoId}

SetMoveOrderMsgs ==
    {ClientMsg(cl, "SetMoveOrder", id, MaxCoord \div 2, NoTarg, 0) :
        cl \in ClientIds, id \in MsgIdArgs}

\* The messages a client can send: every variant with every sender and id.
ClientMsgs ==
    SetMoveOrderMsgs
    \cup {ClientMsg(cl, "SetFireTarg", id, 0, targ, 0) :
             cl \in ClientIds, id \in MsgIdArgs, targ \in MsgIdArgs \cup {NoTarg}}
    \cup {ClientMsg(cl, "LaunchTorpedoVolley", id, 0, NoTarg, 1) :
             cl \in ClientIds, id \in MsgIdArgs}
    \cup {ClientMsg(cl, "UseConsumableSmoke", id, 0, NoTarg, 0) :
             cl \in ClientIds, id \in MsgIdArgs}

\* What the channel holds when read_messages runs: one message, or two
\* SetMoveOrder.
Inbound ==
    {<<m>> : m \in ClientMsgs}
    \cup {<<m, n>> : m \in SetMoveOrderMsgs, n \in SetMoveOrderMsgs}

CommandStep ==
    \/ initalize_game(<<"kiev", "bismarck">>) /\ UNCHANGED shipState
    \/ SpawnShipCommand_apply
    \/ ApplySpawnSmokePuff /\ UNCHANGED shipState
    \/ \E msgs \in Inbound : read_messages(msgs)
    \/ ApplyInsertMoveOrder
    \/ ApplyInsertFireTarget
    \/ ApplyTryRemoveFireTarget
    \/ \E can_fire \in BOOLEAN : LaunchTorpedoVolleyCommand_apply(can_fire)
    \/ ApplyUseConsumableSmoke
    \/ torpedo_reloading
    \/ advance_smoke_cooldown
    \/ \E torp, ship \in Entities, sunk \in BOOLEAN :
           collide_torpedoes(torp, ship, sunk) /\ UNCHANGED shipState
    \/ DespawnNetworkedEntityCommand_try_despawn
    \/ DespawnRetire /\ UNCHANGED shipState
    \/ DespawnNotify /\ UNCHANGED shipState

CommandNext ==
    /\ CommandStep
    /\ nextEntity + Spawns(cmdQueue') <= MaxCommandEntities + 1
    /\ UNCHANGED <<processVars, reader, rotation, turretStates, unitVars>>

CommandSpec == Init /\ [][CommandNext]_vars

(***************************************************************************)
(***************************************************************************)
(* ProcessSpec: the match process between its pipes.  The lobby wrote the  *)
(* init message to stdin; the main thread runs network_handshake, Startup  *)
(* and then one frame after the other; stdin_handler and stdout_handler    *)
(* move frames between the pipes and the two channels; the lobby forwards  *)
(* the messages of the clients and reads the process's stdout.             *)
(***************************************************************************)
simVars == <<tracking, panicked, issued, retired, world, nextEntity, cmdQueue,
             pc, cur, outbox, destroySent, idOf, kindOf, shipState, reader,
             rotation, turretStates, unitVars>>

\* init_msg.clients: the two clients of the match, in this order.
MatchClients == <<1, 2>>

NumClients == Len(MatchClients)

\* The exit status of a process whose main thread panicked.
PanicStatus == 101

\* A frame of WrtsMatchMessage: the envelope's client, the kind of the
\* message and, for InitB, info.id.
Frame(client, kind, id) == [client |-> client, kind |-> kind, id |-> id]

\* The receiving end of the inbound channel and the sending end of the
\* outbound one live in network_handshake and then in the world's resources;
\* a failed handshake returns and drops them.
ChannelsHeld == mainPc \notin {"failed", "exited"}

\* network_handshake: the init message is read from stdin, the two channels
\* are made and the two threads started.  The lobby writes the init message
\* before anything else, so the unwrap of recv_sync finds it.
network_handshake_init ==
    /\ exitCode = None
    /\ mainPc = "recv_init"
    /\ stdin # <<>>
    /\ Head(stdin).kind = "Init"
    /\ stdin' = Tail(stdin)
    /\ handlerAlive' = TRUE
    /\ mainPc' = "send_initA"
    /\ UNCHANGED <<hsCount, pending, stdinOpen, msgs_rx, msgs_tx, pipe, pipeOpen,
                   infos, clientInfos, sentLog, exitRequested, exitCode, ticks,
                   connected, routerAlive, clientSent, hsError, forwarderAlive,
                   simVars>>

\* network_handshake: one turn of `for cl in init_msg.clients`.
network_handshake_send_initA ==
    /\ exitCode = None
    /\ mainPc = "send_initA"
    /\ Len(msgs_tx) < ChannelCap
    /\ LET msg == Frame(MatchClients[hsCount + 1], "InitA", 0)
       IN  /\ msgs_tx' = Append(msgs_tx, msg)
           /\ sentLog' = Append(sentLog, msg)
    /\ IF hsCount + 1 = NumClients
       THEN mainPc' = "recv_initB" /\ hsCount' = 0
       ELSE mainPc' = mainPc /\ hsCount' = hsCount + 1
    /\ UNCHANGED <<pending, stdin, stdinOpen, handlerAlive, msgs_rx, pipe,
                   pipeOpen, infos, clientInfos, exitRequested, exitCode, ticks,
                   connected, routerAlive, clientSent, hsError, forwarderAlive,
                   simVars>>

\* network_handshake: one turn of `for _ in 0..init_msg.clients.len()`,
\* msgs_rx.recv() and its match.
network_handshake_recv_initB ==
    /\ exitCode = None
    /\ mainPc = "recv_initB"
    /\ \/ /\ msgs_rx # <<>>
          /\ msgs_rx' = Tail(msgs_rx)
          /\ IF Head(msgs_rx).kind = "InitB"
             THEN /\ infos' = infos \cup {Head(msgs_rx).id}
                  /\ IF hsCount + 1 = NumClients
                     THEN mainPc' = "send_initC" /\ hsCount' = 0
                     ELSE mainPc' = mainPc /\ hsCount' = hsCount + 1
                  /\ UNCHANGED <<hsError, exitRequested>>
             ELSE /\ hsError' = "unexpected"
                  /\ exitRequested' = TRUE
                  /\ mainPc' = "failed"
                  /\ UNCHANGED <<infos, hsCount>>
       \/ /\ msgs_rx = <<>>
          /\ ~handlerAlive
          /\ hsError' = "disconnected"
          /\ exitRequested' = TRUE
          /\ mainPc' = "failed"
          /\ UNCHANGED <<msgs_rx, infos, hsCount>>
    /\ UNCHANGED <<pending, stdin, stdinOpen, handlerAlive, msgs_tx, pipe,
                   pipeOpen, clientInfos, sentLog, exitCode, ticks, connected,
                   routerAlive, clientSent, forwarderAlive, simVars>>

\* network_handshake: one turn of `for (_, cl_info) in client_infos.clone()`;
\* the map is walked in any order.  After the last turn the resources are
\* inserted.
network_handshake_send_initC ==
    /\ exitCode = None
    /\ mainPc = "send_initC"
    /\ Len(msgs_tx) < ChannelCap
    /\ \E id \in infos \ clientInfos :
          LET msg == Frame(id, "InitC", 0)
          IN  /\ msgs_tx' = Append(msgs_tx, msg)
              /\ sentLog' = Append(sentLog, msg)
              /\ clientInfos' = clientInfos \cup {id}
    /\ mainPc' = IF clientInfos' = infos THEN "startup" ELSE mainPc
    /\ UNCHANGED <<hsCount, pending, stdin, stdinOpen, handlerAlive, msgs_rx,
                   pipe, pipeOpen, infos, exitRequested, exitCode, ticks,
                   connected, routerAlive, clientSent, hsError, forwarderAlive,
                   simVars>>

\* Startup that starts the frames whatever network_handshake left behind.
Startup_initalize_game_NoExpect ==
    /\ exitCode = None
    /\ mainPc \in {"startup", "failed"}
    /\ mainPc' = "poll"
    /\ UNCHANGED <<hsCount, pending, stdin, stdinOpen, handlerAlive, msgs_rx,
                   msgs_tx, pipe, pipeOpen, infos, clientInfos, sentLog,
                   exitRequested, exitCode, ticks, connected, routerAlive,
                   clientSent, hsError, forwarderAlive, simVars>>

\* The Startup schedule of the first frame: initalize_game collects the
\* ClientInfo entities into an array of two and panics on any other number.
\* Its messages, fewer than the slots of the channel, are left out.
Startup_initalize_game ==
    /\ exitCode = None
    /\ mainPc \in {"startup", "failed"}
    /\ IF mainPc = "startup" /\ Cardinality(clientInfos) = 2
       THEN mainPc' = "poll" /\ UNCHANGED exitCode
       ELSE mainPc' = "exited" /\ exitCode' = PanicStatus
    /\ UNCHANGED <<hsCount, pending, stdin, stdinOpen, handlerAlive, msgs_rx,
                   msgs_tx, pipe, pipeOpen, infos, clientInfos, sentLog,
                   exitRequested, ticks, connected, routerAlive, clientSent,
                   hsError, forwarderAlive, simVars>>

\* read_messages: one turn of its loop, as far as the channels go.  An Echo
\* is answered with a PrintMsg; the commands of the other messages are the
\* subject of CommandSpec.
read_messages_try_recv ==
    /\ exitCode = None
    /\ mainPc = "poll"
    /\ \/ /\ msgs_rx # <<>>
          /\ msgs_rx' = Tail(msgs_rx)
          /\ IF Head(msgs_rx).kind = "Echo"
             THEN /\ pending' = <<Frame(Head(msgs_rx).client, "PrintMsg", 0)>>
                  /\ mainPc' = "send"
             ELSE UNCHANGED <<pending, mainPc>>
          /\ UNCHANGED exitRequested
       \/ /\ msgs_rx = <<>>
          /\ handlerAlive
          /\ mainPc' = "update"
          /\ UNCHANGED <<msgs_rx, pending, exitRequested>>
       \/ /\ msgs_rx = <<>>
          /\ ~handlerAlive
          /\ exitRequested' = TRUE
          /\ mainPc' = "update"
          /\ UNCHANGED <<msgs_rx, pending>>
    /\ UNCHANGED <<hsCount, stdin, stdinOpen, handlerAlive, msgs_tx, pipe,
                   pipeOpen, infos, clientInfos, sentLog, exitCode, ticks,
                   connected, routerAlive, clientSent, hsError, forwarderAlive,
                   simVars>>

\* The main thread waits in SyncSender::send: the channel is full.
SendBlocked == mainPc \in {"send", "update_send"} /\ Len(msgs_tx) = ChannelCap

\* MessagesSend::send: SyncSender::send returns once the message has a slot.
MessagesSend_send ==
    /\ exitCode = None
    /\ mainPc \in {"send", "update_send"}
    /\ Len(msgs_tx) < ChannelCap
    /\ msgs_tx' = Append(msgs_tx, Head(pending))
    /\ pending' = <<>>
    /\ mainPc' = IF mainPc = "send" THEN "poll" ELSE "frame_end"
    /\ UNCHANGED <<hsCount, stdin, stdinOpen, handlerAlive, msgs_rx, pipe,
                   pipeOpen, infos, clientInfos, sentLog, exitRequested,
                   exitCode, ticks, connected, routerAlive, clientSent, hsError,
                   forwarderAlive, simVars>>

\* The Update schedule of a frame: a simulation tick.  Its UpdateClientsSystem
\* systems send through MessagesSend::send; one message of them is kept.
Update_tick ==
    /\ exitCode = None
    /\ mainPc = "update"
    /\ ticks' = IF ticks < MaxTicks THEN ticks + 1 ELSE ticks
    /\ \/ /\ mainPc' = "frame_end"
          /\ UNCHANGED pending
       \/ \E cl \in clientInfos :
             /\ pending' = <<Frame(cl, "SetTrans", 0)>>
             /\ mainPc' = "update_send"
    /\ UNCHANGED <<hsCount, stdin, stdinOpen, handlerAlive, msgs_rx, msgs_tx,
                   pipe, pipeOpen, infos, clientInfos, sentLog, exitRequested,
                   exitCode, connected, routerAlive, clientSent, hsError,
                   forwarderAlive, simVars>>

\* The runner after a frame: an AppExit event ends App::run, start_match
\* logs it and returns Ok(()), and main returns Ok(()).
runner_frame_end ==
    /\ exitCode = None
    /\ mainPc = "frame_end"
    /\ IF exitRequested
       THEN mainPc' = "exited" /\ exitCode' = 0
       ELSE mainPc' = "poll" /\ UNCHANGED exitCode
    /\ UNCHANGED <<hsCount, pending, stdin, stdinOpen, handlerAlive, msgs_rx,
                   msgs_tx, pipe, pipeOpen, infos, clientInfos, sentLog,
                   exitRequested, ticks, connected, routerAlive, clientSent,
                   hsError, forwarderAlive, simVars>>

\* stdin_handler: one turn of its loop.
stdin_handler ==
    /\ exitCode = None
    /\ handlerAlive
    /\ \/ /\ stdin # <<>>
          /\ ChannelsHeld
          /\ Len(msgs_rx) < ChannelCap
          /\ msgs_rx' = Append(msgs_rx, Head(stdin))
          /\ stdin' = Tail(stdin)
          /\ UNCHANGED handlerAlive
       \/ /\ stdin # <<>>
          /\ ~ChannelsHeld
          /\ stdin' = Tail(stdin)
          /\ handlerAlive' = FALSE
          /\ UNCHANGED msgs_rx
       \/ /\ stdin = <<>>
          /\ ~stdinOpen
          /\ handlerAlive' = FALSE
          /\ UNCHANGED <<stdin, msgs_rx>>
    /\ UNCHANGED <<mainPc, hsCount, pending, stdinOpen, msgs_tx, pipe, pipeOpen,
                   infos, clientInfos, sentLog, exitRequested, exitCode, ticks,
                   connected, routerAlive, clientSent, hsError, forwarderAlive,
                   simVars>>

\* stdout_handler: one turn of its loop.  A write to a pipe nobody reads
\* fails, the error is logged and the message is lost.
stdout_handler ==
    /\ exitCode = None
    /\ msgs_tx # <<>>
    /\ IF pipeOpen
       THEN /\ Len(pipe) < PipeCap
            /\ pipe' = Append(pipe, Head(msgs_tx))
       ELSE UNCHANGED pipe
    /\ msgs_tx' = Tail(msgs_tx)
    /\ UNCHANGED <<mainPc, hsCount, pending, stdin, stdinOpen, handlerAlive,
                   msgs_rx, pipeOpen, infos, clientInfos, sentLog,
                   exitRequested, exitCode, ticks, connected, routerAlive,
                   clientSent, hsError, forwarderAlive, simVars>>

\* The lobby.  A connected client sends a message, its handler passes it on
\* and the main loop of match_instance_router writes it to the process's
\* stdin under the client's id; a failed write ends the loop.
match_instance_router_forward(client, kind, id) ==
    /\ routerAlive
    /\ connected = Range(MatchClients)
    /\ client \in connected
    /\ clientSent < MaxClientMsgs
    /\ clientSent' = clientSent + 1
    /\ IF exitCode = None
       THEN /\ Len(stdin) < PipeCap
            /\ stdin' = Append(stdin, Frame(client, kind, id))
            /\ UNCHANGED <<routerAlive, stdinOpen>>
       ELSE /\ routerAlive' = FALSE
            /\ stdinOpen' = FALSE
            /\ UNCHANGED stdin
    /\ UNCHANGED <<mainPc, hsCount, pending, handlerAlive, msgs_rx, msgs_tx,
                   pipe, pipeOpen, infos, clientInfos, sentLog, exitRequested,
                   exitCode, ticks, connected, hsError, forwarderAlive, simVars>>

\* A client leaves: its handler returns and drops its two channels to the
\* router.
client_leaves(client) ==
    /\ client \in connected
    /\ connected' = connected \ {client}
    /\ UNCHANGED <<mainPc, hsCount, pending, stdin, stdinOpen, handlerAlive,
                   msgs_rx, msgs_tx, pipe, pipeOpen, infos, clientInfos,
                   sentLog, exitRequested, exitCode, ticks, routerAlive,
                   clientSent, hsError, forwarderAlive, simVars>>

\* match_instance_router: try_recv on the channel of a client that left is
\* Disconnected; the main loop is left, the kill future is dropped unpolled
\* and the process's stdin is closed.
match_instance_router_disconnected ==
    /\ routerAlive
    /\ connected # Range(MatchClients)
    /\ routerAlive' = FALSE
    /\ stdinOpen' = FALSE
    /\ UNCHANGED <<mainPc, hsCount, pending, stdin, handlerAlive, msgs_rx,
                   msgs_tx, pipe, pipeOpen, infos, clientInfos, sentLog,
                   exitRequested, exitCode, ticks, connected, clientSent,
                   hsError, forwarderAlive, simVars>>

\* The task match_instance_router spawns: one turn of its loop.  A message
\* for a client that left ends the task and closes the process's stdout.
match_instance_router_task ==
    /\ forwarderAlive
    /\ \/ /\ pipe # <<>>
          /\ pipe' = Tail(pipe)
          /\ IF Head(pipe).client \in connected
             THEN UNCHANGED <<forwarderAlive, pipeOpen>>
             ELSE forwarderAlive' = FALSE /\ pipeOpen' = FALSE
       \/ /\ pipe = <<>>
          /\ exitCode # None
          /\ forwarderAlive' = FALSE
          /\ pipeOpen' = FALSE
          /\ UNCHANGED pipe
    /\ UNCHANGED <<mainPc, hsCount, pending, stdin, stdinOpen, handlerAlive,
                   msgs_rx, msgs_tx, infos, clientInfos, sentLog,
                   exitRequested, exitCode, ticks, connected, routerAlive,
                   clientSent, hsError, simVars>>

\* The messages a client may send: its identity under either id, an Echo,
\* or a command.
ClientFrames == {<<"InitB", 1>>, <<"InitB", 2>>, <<"Echo", 0>>, <<"Cmd", 0>>}

MainThread ==
    \/ network_handshake_init
    \/ network_handshake_send_initA
    \/ network_handshake_recv_initB
    \/ network_handshake_send_initC
    \/ Startup_initalize_game
    \/ read_messages_try_recv
    \/ MessagesSend_send
    \/ Update_tick
    \/ runner_frame_end

ProcessNext ==
    \/ MainThread
    \/ stdin_handler
    \/ stdout_handler
    \/ \E client \in Range(MatchClients), f \in ClientFrames :
          match_instance_router_forward(client, f[1], f[2])
    \/ \E client \in Range(MatchClients) : client_leaves(client)
    \/ match_instance_router_disconnected
    \/ match_instance_router_task

ProcessSpec == Init /\ [][ProcessNext]_vars

\* The threads of the process and the tasks of the lobby are scheduled
\* fairly; the clients are free to send or leave, or not to.
ProcessFairSpec ==
    /\ ProcessSpec
    /\ WF_vars(MainThread)
    /\ WF_vars(stdin_handler)
    /\ WF_vars(stdout_handler)
    /\ WF_vars(match_instance_router_disconnected)
    /\ WF_vars(match_instance_router_task)

(***************************************************************************)
(* FrameSpec: read_from_stream_sync / read_from_stream_async on a stream   *)
(* of bytes.  A frame is a length prefix of four bytes, big-endian, and    *)
(* that many bytes of JSON.                                                *)
(***************************************************************************)
ByteRadix == 256

\* u32::from_be_bytes(buf)
from_be_bytes(buf) ==
    ((buf[1] * ByteRadix + buf[2]) * ByteRadix + buf[3]) * ByteRadix + buf[4]

\* let limit = 1024 * 1024;
limit == 1024 * 1024

\* A length prefix that passes every check.
ExceedsLimit_Never(length_prefix) == FALSE

\* if length_prefix > limit
ExceedsLimit(length_prefix) == length_prefix > limit

\* The bytes the streams are made of: they spell lengths of 0, 1, 16, the
\* limit, and lengths above it up to 2^31 (the prefix is unsigned, and
\* the values from 2^31 on compare like these).
StreamBytes == {0, 1, 16, 127}

RECURSIVE StreamsOfLen(_)
StreamsOfLen(n) ==
    IF n = 0 THEN {<<>>}
    ELSE {Append(s, b) : s \in StreamsOfLen(n - 1), b \in StreamBytes}

Streams == UNION {StreamsOfLen(n) : n \in 0..MaxStream}

\* A caller hands a stream to read_from_stream; the peer has closed it after
\* the bytes it holds.
read_from_stream_call(stream) ==
    /\ reader.pc = "idle"
    /\ reader' = [ReaderIdle EXCEPT !.pc = "prefix", !.stream = stream]

\* read_exact of the four bytes of the prefix, from_be_bytes and the check
\* against the limit.  A stream that ends inside the prefix is an error of
\* read_exact.
read_from_stream_prefix ==
    /\ reader.pc = "prefix"
    /\ IF Len(reader.stream) < 4
       THEN reader' = [reader EXCEPT !.pc = "done", !.result = "Err(io)",
                                     !.taken = Len(reader.stream), !.stream = <<>>]
       ELSE LET length_prefix == from_be_bytes(SubSeq(reader.stream, 1, 4))
                rest == SubSeq(reader.stream, 5, Len(reader.stream))
            IN  IF ExceedsLimit(length_prefix)
                THEN reader' = [reader EXCEPT !.pc = "done", !.result = "Err(limit)",
                                              !.length_prefix = length_prefix,
                                              !.taken = 4, !.stream = rest]
                ELSE reader' = [reader EXCEPT !.pc = "alloc",
                                              !.length_prefix = length_prefix,
                                              !.taken = 4, !.stream = rest]

\* let mut data = vec![0u8; length_prefix as usize];
read_from_stream_alloc ==
    /\ reader.pc = "alloc"
    /\ reader' = [reader EXCEPT !.pc = "payload", !.data = reader.length_prefix]

\* read_exact of the payload and serde_json::from_slice.  Whether the bytes
\* are the JSON of a message is left open, except that no bytes are not.
read_from_stream_payload ==
    /\ reader.pc = "payload"
    /\ IF Len(reader.stream) < reader.data
       THEN reader' = [reader EXCEPT !.pc = "done", !.result = "Err(io)",
                                     !.taken = @ + Len(reader.stream), !.stream = <<>>]
       ELSE \E parsed \in BOOLEAN :
               /\ reader.data = 0 => ~parsed
               /\ reader' = [reader EXCEPT
                                !.pc = "done",
                                !.result = IF parsed THEN "Ok" ELSE "Err(json)",
                                !.taken = @ + reader.data,
                                !.stream = SubSeq(@, reader.data + 1, Len(@))]

FrameNext ==
    /\ \/ \E stream \in Streams : read_from_stream_call(stream)
       \/ read_from_stream_prefix
       \/ read_from_stream_alloc
       \/ read_from_stream_payload
    /\ UNCHANGED <<tracking, panicked, issued, retired, world, nextEntity,
                   cmdQueue, pc, cur, outbox, destroySent, idOf, kindOf,
                   shipState, processVars, rotation, turretStates, unitVars>>

FrameSpec == Init /\ [][FrameNext]_vars

(***************************************************************************)
(* AimSpec: aim_turrets (lib.rs) among ships that move, are detected and   *)
(* are given fire targets.  On the line a direction is 1 (the angle 0,     *)
(* along +x) or -1 (the angle PI); relative to a ship's bow a direction is *)
(* 1 (ahead) or -1 (astern).                                               *)
(***************************************************************************)
\* TurretInstance with the targeting_mode and max_range of its template;
\* valid_angle is firing_angle.or(movement_angle) as the set of directions,
\* relative to the bow, that the AngleRange contains.
TurretInstance(targeting_mode, max_range, valid_angle) ==
    [targeting_mode |-> targeting_mode, max_range |-> max_range,
     valid_angle |-> valid_angle]

\* The turret_instances of nagato, cut to four: the main battery aft
\* (from_angles_deg(34., -34.)) and fore (-138., 138.), a 140 mm gun
\* (0., 130.) and a 127 mm gun (20., 180.); max_range is scaled to the line.
turret_instances(ship_base) ==
    IF ship_base = "nagato"
    THEN <<TurretInstance("Primary", ShipTemplate(ship_base).max_range, {-1}),
           TurretInstance("Primary", ShipTemplate(ship_base).max_range, {1}),
           TurretInstance("Secondary", 2, {1}),
           TurretInstance("Secondary", 2, {-1})>>
    ELSE <<>>

\* TurretAimInfo: the status and, with a target, the target.
NoValidTarget == [status |-> "NoValidTarget", target |-> NoEntity]

\* Option<BulletProblemRes>::None
NoSolution == [some |-> FALSE, intersection_dist |-> 0, projectile_azimuth |-> 1]

\* math_utils::bullet_problem on the line: the shell meets the ship where
\* it is one step of time on; the azimuth is atan2(0, intersection).  On
\* the line the shell is fast enough for every target, so the root is
\* real and finite.
bullet_problem(projectile_start, ship_start, ship_vel) ==
    LET intersection == (ship_start - projectile_start) + ship_vel * Dt
    IN  [some |-> TRUE, intersection_dist |-> Abs(intersection),
         projectile_azimuth |-> IF intersection >= 0 THEN 1 ELSE -1]

\* A variant of do_bp_against_targ that does not look at is_detected.
do_bp_against_targ_Undetected(turret_pos, max_range, targ) ==
    LET bp == bullet_problem(turret_pos, world[targ].pos, world[targ].vel)
    IN  IF bp.some /\ bp.intersection_dist < max_range THEN bp ELSE NoSolution

\* do_bp_against_targ: no solution against a ship that is not detected,
\* and none at or beyond max_range.
do_bp_against_targ(turret_pos, max_range, targ) ==
    IF ~world[targ].is_detected THEN NoSolution
    ELSE LET bp == bullet_problem(turret_pos, world[targ].pos, world[targ].vel)
         IN  IF bp.some /\ bp.intersection_dist < max_range THEN bp ELSE NoSolution

\* targ_dir: the azimuth less the rotation of the ship.
targ_dir(ship, bp) == bp.projectile_azimuth * rotation[ship]

\* bp_is_within_firing_angle
bp_is_within_firing_angle(ship, turret, bp) == targ_dir(ship, bp) \in turret.valid_angle

\* ships_by_team[team]: the ships of the query, in the order of the query
\* (the order they were spawned in).
ships_by_team(team) == {e \in Ships : world[e].team = team}

team_opposite(team) == IF team = 1 THEN 2 ELSE 1

\* The fire target as aim_turrets takes it: the FireTarget of the ship,
\* found among the ships of the other team and detected; else NoEntity.
fire_targ(ship) ==
    LET targ == shipState[ship].fire_target
    IN  IF /\ targ # NoEntity
           /\ targ \in ships_by_team(team_opposite(world[ship].team))
           /\ world[targ].is_detected
        THEN targ ELSE NoEntity

\* The key of sorted_by_key: distance_squared between the two ships.
distance_squared(a, b) == (world[a].pos - world[b].pos) * (world[a].pos - world[b].pos)

\* .sorted_by_key(..): stable, so ships at the same distance keep the
\* order of the query.
RECURSIVE sorted_by_key(_, _)
sorted_by_key(targs, ship) ==
    IF targs = {} THEN <<>>
    ELSE LET first == CHOOSE t \in targs : \A u \in targs :
                          \/ distance_squared(t, ship) < distance_squared(u, ship)
                          \/ /\ distance_squared(t, ship) = distance_squared(u, ship)
                             /\ t <= u
         IN  <<first>> \o sorted_by_key(targs \ {first}, ship)

\* A variant of select_target under which a turret in mode Primary falls
\* back to the nearest ship as one in mode Secondary does.
select_target_AnyMode(ship, turret) ==
    LET turret_pos == world[ship].pos
        ft == fire_targ(ship)
        primary_targ ==
            IF ft # NoEntity /\ do_bp_against_targ(turret_pos, turret.max_range, ft).some
            THEN <<ft>> ELSE <<>>
        fallback_targs ==
            SelectSeq(sorted_by_key(ships_by_team(team_opposite(world[ship].team)), ship),
                      LAMBDA t : do_bp_against_targ(turret_pos, turret.max_range, t).some)
        found ==
            SelectSeq(primary_targ \o fallback_targs,
                      LAMBDA t : bp_is_within_firing_angle(ship, turret,
                                     do_bp_against_targ(turret_pos, turret.max_range, t)))
    IN  IF found # <<>> THEN Head(found) ELSE NoEntity

\* The target a turret selects (lines 486-533), NoEntity for none.
select_target(ship, turret) ==
    LET turret_pos == world[ship].pos
        ft == fire_targ(ship)
        primary_targ ==
            IF ft # NoEntity /\ do_bp_against_targ(turret_pos, turret.max_range, ft).some
            THEN <<ft>> ELSE <<>>
    IN  IF turret.targeting_mode = "Primary"
        THEN IF primary_targ # <<>> THEN ft ELSE NoEntity
        ELSE LET fallback_targs ==
                     SelectSeq(sorted_by_key(ships_by_team(team_opposite(world[ship].team)), ship),
                               LAMBDA t : do_bp_against_targ(turret_pos, turret.max_range, t).some)
                 found ==
                     SelectSeq(primary_targ \o fallback_targs,
                               LAMBDA t : bp_is_within_firing_angle(ship, turret,
                                              do_bp_against_targ(turret_pos, turret.max_range, t)))
             IN  IF found # <<>> THEN Head(found) ELSE NoEntity

\* The aim_info a turret is left with (lines 535-605).  On the line a
\* turret points the way its movement angle lets it, so it is aimed when
\* and only when the target lies that way.
aim_info(ship, turret) ==
    LET targ == select_target(ship, turret)
    IN  IF targ = NoEntity THEN NoValidTarget
        ELSE LET bp == do_bp_against_targ(world[ship].pos, turret.max_range, targ)
             IN  [status |-> IF targ_dir(ship, bp) \in turret.valid_angle
                             THEN "AimedAtTarget" ELSE "AimingToTarget",
                  target |-> targ]

\* aim_turrets: every turret of every ship of the two teams.
aim_turrets ==
    /\ Running
    /\ Ships # {}
    /\ turretStates' = [e \in Entities |->
          IF e \in Ships
          THEN [i \in DOMAIN turret_instances(world[e].tmpl) |->
                   aim_info(e, turret_instances(world[e].tmpl)[i])]
          ELSE turretStates[e]]
    /\ outbox' = <<>>
    /\ UNCHANGED <<tracking, panicked, issued, retired, world, nextEntity,
                   cmdQueue, pc, cur, destroySent, idOf, kindOf, shipState,
                   rotation>>

\* initalize_game with three of its ships: one of team 1, two of team 2 a
\* step apart.  The smoke puff has no part in aiming and is left out.
initalize_game_ships ==
    /\ Running
    /\ nextEntity = 1
    /\ cmdQueue = <<>>
    /\ Queue(<<SpawnShipCommand(1, "nagato", pos_base(1)),
               SpawnShipCommand(2, "nagato", pos_base(2)),
               SpawnShipCommand(2, "nagato", pos_base(2) + 1)>>,
             TRUE, FALSE)

\* rot of initalize_game: each fleet faces the other.
rot_base(team) == IF team = 1 THEN -1 ELSE 1

\* SpawnShipCommand::apply with the Transform's rotation and TurretStates.
SpawnShipCommand_apply_turrets ==
    /\ SpawnShipCommand_apply
    /\ rotation' = [rotation EXCEPT ![nextEntity] = rot_base(Head(cmdQueue).team)]
    /\ turretStates' = [turretStates EXCEPT ![nextEntity] =
          [i \in DOMAIN turret_instances(Head(cmdQueue).tmpl) |-> NoValidTarget]]

\* update_ship_velocity and apply_velocity: a ship that moves points the
\* way it moves.
move_ships(v) ==
    /\ apply_velocity(v)
    /\ rotation' = [e \in Entities |->
          IF e \in Ships /\ v[e] # 0 THEN v[e] ELSE rotation[e]]

\* The fleet of team 2 has no move order and lies still.
ShipVelocities ==
    {v \in [Ships -> {-1, 0, 1}] : \A e \in Ships : world[e].team = 2 => v[e] = 0}

\* The SetFireTarg messages of the two clients: for the first ship of
\* each fleet, with any ship or none for the target.
SetFireTargMsgs ==
    {ClientMsg(cl, "SetFireTarg", id, 0, targ, 0) :
        cl \in ClientIds, id \in {idOf[e] : e \in 1..2} \ {NoId}, targ \in (MsgIdArgs \ {NoId}) \cup {NoTarg}}

AimStep ==
    \/ initalize_game_ships /\ UNCHANGED <<shipState, rotation, turretStates>>
    \/ SpawnShipCommand_apply_turrets
    \/ \E m \in SetFireTargMsgs :
           read_messages(<<m>>) /\ UNCHANGED <<rotation, turretStates>>
    \/ ApplyInsertFireTarget /\ UNCHANGED <<rotation, turretStates>>
    \/ ApplyTryRemoveFireTarget /\ UNCHANGED <<rotation, turretStates>>
    \/ \E v \in ShipVelocities : move_ships(v) /\ UNCHANGED <<shipState, turretStates>>
    \/ update_detection /\ UNCHANGED <<shipState, rotation, turretStates>>
    \/ aim_turrets

AimNext ==
    /\ AimStep
    /\ UNCHANGED <<processVars, reader, unitVars>>

AimSpec == Init /\ [][AimNext]_vars

(***************************************************************************)
(* Directions and AngleRange (wrts_match_shared/ship_template/mod.rs,      *)
(* formulas/mod.rs).  A direction is a unit vector, here a point of a      *)
(* circle of Circle points counted counter-clockwise from the bow; an      *)
(* angle is a number of points.  The length of a vector plays no part:     *)
(* clamp_angle keeps it.                                                   *)
(***************************************************************************)
Dirs == 0..(Circle - 1)

\* Vec2::from_angle(a).rotate(v)
rotate(v, a) == (v + a) % Circle

\* The sign of Vec2::perp_dot(a, b), the sine of the angle from a to b.
perp_dot(a, b) ==
    LET d == (b - a) % Circle
    IN  IF d = 0 \/ 2 * d = Circle THEN 0
        ELSE IF 2 * d < Circle THEN 1 ELSE -1

\* Vec2::angle_to: the angle from a to b, between -PI and PI.
angle_to(a, b) ==
    LET d == (b - a) % Circle
    IN  IF 2 * d <= Circle THEN d ELSE d - Circle

\* formulas::vector_is_within_swept_angle
vector_is_within_swept_angle(v, from, to) ==
    IF perp_dot(from, to) >= 0
    THEN perp_dot(from, v) >= 0 /\ perp_dot(v, to) >= 0
    ELSE perp_dot(from, v) >= 0 \/ perp_dot(v, to) >= 0

\* AngleRange::from_vectors / from_angles: the sweep counter-clockwise
\* from `from` to `to`.
AngleRange(from, to) == [from |-> from, to |-> to]

AngleRanges == {AngleRange(from, to) : from \in Dirs, to \in Dirs}

\* AngleRange::inverse
inverse(range) == AngleRange(range.to, range.from)

\* AngleRange::contains
contains(range, v) == vector_is_within_swept_angle(v, range.from, range.to)

\* A variant of clamp_angle that returns the endpoint farther from v.
clamp_angle_Farther(range, v) ==
    IF contains(range, v) THEN v
    ELSE IF Abs(angle_to(range.from, v)) > Abs(angle_to(range.to, v))
    THEN range.from
    ELSE range.to

\* AngleRange::clamp_angle
clamp_angle(range, v) ==
    IF contains(range, v) THEN v
    ELSE IF Abs(angle_to(range.from, v)) > Abs(angle_to(range.to, v))
    THEN range.to
    ELSE range.from

\* AngleRange::overlaps
overlaps(range, other) ==
    \/ contains(range, other.from)
    \/ contains(range, other.to)
    \/ contains(other, range.from)

\* A call range.clamp_angle(v), and the call on its result.
clamp_angle_call(range, v) ==
    /\ ~clamped.called
    /\ clamped' = [called |-> TRUE, from |-> range.from, to |-> range.to,
                   v |-> v, out |-> clamp_angle(range, v)]
    /\ UNCHANGED <<tracking, panicked, issued, retired, world, nextEntity,
                   cmdQueue, pc, cur, outbox, destroySent, idOf, kindOf,
                   shipState, processVars, reader, rotation, turretStates,
                   tubes, gun, smokeUnit, arena, sched, mover, mm>>

AngleNext == \E range \in AngleRanges, v \in Dirs : clamp_angle_call(range, v)

AngleSpec == Init /\ [][AngleNext]_vars

(***************************************************************************)
(* VolleySpec: LaunchTorpedoVolleyCommand::apply (networking.rs) and       *)
(* torpedo_reloading (lib.rs) on one ship with a heading, past the tests   *)
(* of the sender.  The spread and the offsets of the torpedoes are in      *)
(* degrees; an f32 is a fraction, an infinity or a NaN.                    *)
(***************************************************************************)
NaN == [class |-> "nan", num |-> 0, den |-> 0]
Infinity == [class |-> "inf", num |-> 0, den |-> 0]
Finite(num, den) == [class |-> "finite", num |-> num, den |-> den]

\* a / b of two f32 that hold integers (a >= 0).
f32_div(a, b) ==
    IF b # 0 THEN Finite(a, b)
    ELSE IF a = 0 THEN NaN ELSE Infinity

\* (h / 2) * x of f32, h an integer.
f32_mul_half(h, x) ==
    IF x.class = "nan" THEN NaN
    ELSE IF x.class = "inf" THEN (IF h = 0 THEN NaN ELSE Infinity)
    ELSE Finite(h * x.num, 2 * x.den)

\* struct Torpedoes of the templates kiev (russia.rs) and oland
\* (sweden.rs): the reload in ticks, the arcs on the circle.
Torpedoes(ship_base) ==
    IF ship_base = "kiev"
    THEN [reload |-> 2, volleys |-> 2, torps_per_volley |-> 5, spread |-> 10,
          port_firing_angle |-> AngleRange(3, 9)]
    ELSE [reload |-> 1, volleys |-> 2, torps_per_volley |-> 3, spread |-> 6,
          port_firing_angle |-> AngleRange(4, 8)]

\* The templates of the data, and oland's with every other size of volley
\* that torps_per_volley: usize allows, up to MaxTorps.
TorpedoTemplates ==
    {Torpedoes("kiev"), Torpedoes("oland")}
    \cup {[Torpedoes("oland") EXCEPT !.torps_per_volley = n] : n \in 1..MaxTorps}

\* AngleRange::reflect_x
reflect_x(range) == AngleRange((0 - range.to) % Circle, (0 - range.from) % Circle)

\* AngleRange::rotated_by
rotated_by(range, dir) == AngleRange(rotate(range.from, dir), rotate(range.to, dir))

\* Torpedoes::starboard_firing_angle
starboard_firing_angle(torpedoes) == reflect_x(torpedoes.port_firing_angle)

\* A variant of can_fire_dir that tests the port arc only.
can_fire_dir_PortOnly(torpedoes, ship_dir, dir) ==
    contains(rotated_by(torpedoes.port_firing_angle, ship_dir), dir)

\* let can_fire = ..
can_fire_dir(torpedoes, ship_dir, dir) ==
    \/ contains(rotated_by(torpedoes.port_firing_angle, ship_dir), dir)
    \/ contains(rotated_by(starboard_firing_angle(torpedoes), ship_dir), dir)

\* let angle_offset = ..
angle_offset(torp_idx, torpedoes) ==
    LET s == f32_div(torpedoes.spread, torpedoes.torps_per_volley - 1)
    IN  f32_mul_half(2 * torp_idx - (torpedoes.torps_per_volley - 1), s)

\* SpawnShipCommand::apply: the reload timers of a ship with torpedoes.
SpawnShipCommand_apply_tubes(torpedoes, ship_dir) ==
    /\ ~tubes.spawned
    /\ tubes' = [spawned |-> TRUE, torpedoes |-> torpedoes, ship_dir |-> ship_dir,
                 torpedo_reloads |->
                     [i \in 1..torpedoes.volleys |-> Timer_new(torpedoes.reload)],
                 dir |-> 0, torps |-> <<>>]

\* torpedo_reloading
torpedo_reloading_tubes ==
    /\ tubes.spawned
    /\ tubes' = [tubes EXCEPT
                    !.torpedo_reloads = [i \in DOMAIN @ |-> Timer_tick(@[i], Dt)],
                    !.dir = 0, !.torps = <<>>]

\* LaunchTorpedoVolleyCommand::apply from `let Some((_volley_idx,
\* volley_timer))` on; torps holds the angle_offset of the torpedoes
\* spawned by this command.
LaunchTorpedoVolleyCommand_apply_tubes(dir) ==
    /\ tubes.spawned
    /\ LET torpedoes == tubes.torpedoes
           timers == tubes.torpedo_reloads
           done == {i \in DOMAIN timers : timers[i].finished}
           volley_idx == IF done = {} THEN 0
                         ELSE CHOOSE i \in done : \A j \in done : i <= j
       IN  IF volley_idx = 0 \/ ~can_fire_dir(torpedoes, tubes.ship_dir, dir)
           THEN tubes' = [tubes EXCEPT !.dir = dir, !.torps = <<>>]
           ELSE tubes' = [tubes EXCEPT
                    !.torpedo_reloads[volley_idx] = Timer_new(torpedoes.reload),
                    !.dir = dir,
                    !.torps = [k \in 1..torpedoes.torps_per_volley |->
                                  angle_offset(k - 1, torpedoes)]]

VolleyStep ==
    \/ \E torpedoes \in TorpedoTemplates, ship_dir \in Dirs :
           SpawnShipCommand_apply_tubes(torpedoes, ship_dir)
    \/ torpedo_reloading_tubes
    \/ \E dir \in Dirs : LaunchTorpedoVolleyCommand_apply_tubes(dir)

VolleyNext ==
    /\ VolleyStep
    /\ UNCHANGED <<tracking, panicked, issued, retired, world, nextEntity,
                   cmdQueue, pc, cur, outbox, destroySent, idOf, kindOf,
                   shipState, processVars, reader, rotation, turretStates,
                   clamped, gun, smokeUnit, arena, sched, mover, mm>>

VolleySpec == Init /\ [][VolleyNext]_vars

(***************************************************************************)
(* TurretSpec: one turret of a ship through the frames of the Update       *)
(* schedule: turret_reloading, the traversal of aim_turrets and            *)
(* fire_bullets (lib.rs).  Directions are points of the circle, relative   *)
(* to the ship; the target the selection of aim_turrets hands to the       *)
(* traversal is an input, given by the direction of its solution, and      *)
(* <<>> stands for no target.  The time of a frame is 1..MaxDelta units.   *)
(* On this circle the turret turns TurnRate points in a unit of time, the  *)
(* nudge is Nudge points and the tolerance of the aim is Tolerance points, *)
(* so that a frame of one unit turns the turret by less than the           *)
(* tolerance and a long frame by more; the arcs of the mounts leave a      *)
(* forbidden sweep of more than twice the longest step of a frame, as      *)
(* those of the templates do.                                              *)
(***************************************************************************)
\* turret_template.turn_rate.radps(), in points per unit of time.
TurnRate == 1

\* PI / 180 of the test turret_not_aimed, in points.
Tolerance == 2

\* The 0.001 of curr_dir_nudged_ccw and curr_dir_nudged_cw, in points.
Nudge == 2

\* The distance within which targ_dir_clamped counts as snapped to end_dir
\* (distance_squared <= 0.001, a chord of 0.0316), in points.
SnapDistance == 3

Deltas == 1..MaxDelta

\* A TurretInstance with its TurretTemplate: an Option is <<>> or <<x>>.
TurretMount(movement_angle, firing_angle, default_dir, barrel_count, reload_secs) ==
    [movement_angle |-> movement_angle, firing_angle |-> firing_angle,
     default_dir |-> default_dir, barrel_count |-> barrel_count,
     reload_secs |-> reload_secs]

\* Mounts of the templates: an aft main turret that cannot train over the
\* bow, a broadside secondary gun, and a turret of oland, which trains
\* freely and fires outside the sweep over the bow only.
TurretMounts ==
    << TurretMount(<<AngleRange(4, 20)>>, <<>>, 12, 2, 3),
       TurretMount(<<AngleRange(1, 10)>>, <<>>, 6, 1, 2),
       TurretMount(<<>>, <<AngleRange(2, 22)>>, 12, 2, 2) >>

mount == TurretMounts[gun.instance]

\* f32::signum: 1.0 for 0.0.
signum(x) == IF x >= 0 THEN 1 ELSE -1

\* The match on turret_instance.movement_angle that gives rotate_dir.
rotate_dir(movement_angle, curr_dir, desired_dir) ==
    IF movement_angle # <<>>
    THEN LET range == movement_angle[1]
             curr_dir_nudged_ccw == rotate(curr_dir, Nudge)
             curr_dir_nudged_cw == rotate(curr_dir, 0 - Nudge)
         IN  IF ~overlaps(AngleRange(curr_dir_nudged_ccw, desired_dir), inverse(range))
             THEN 1
             ELSE IF ~overlaps(AngleRange(desired_dir, curr_dir_nudged_cw), inverse(range))
             THEN -1
             ELSE IF Abs(angle_to(clamp_angle(range, desired_dir), range.to)) <= SnapDistance
             THEN 1
             ELSE -1
    ELSE signum(angle_to(curr_dir, desired_dir))

\* A variant of new_dir that is not clamped to the movement angle.
new_dir_Unclamped(movement_angle, curr_dir, desired_dir, delta) ==
    rotate(curr_dir, rotate_dir(movement_angle, curr_dir, desired_dir) * TurnRate * delta)

\* new_dir: the turn of one frame, clamped to the movement angle.
new_dir(movement_angle, curr_dir, desired_dir, delta) ==
    LET dir == rotate(curr_dir, rotate_dir(movement_angle, curr_dir, desired_dir) * TurnRate * delta)
    IN  IF movement_angle # <<>> THEN clamp_angle(movement_angle[1], dir) ELSE dir

turret_not_aimed(dir, desired_dir) == Abs(angle_to(dir, desired_dir)) > Tolerance

\* A variant of turret_outside_firing_angle that never holds.
turret_outside_firing_angle_Never(firing_angle, dir) == FALSE

turret_outside_firing_angle(firing_angle, dir) ==
    IF firing_angle # <<>> THEN ~contains(firing_angle[1], dir) ELSE FALSE

\* A variant of turret_cant_fire_this_frame that looks at the arc only.
turret_cant_fire_this_frame_ArcOnly(firing_angle, dir, desired_dir) ==
    turret_outside_firing_angle(firing_angle, dir)

turret_cant_fire_this_frame(firing_angle, dir, desired_dir) ==
    turret_not_aimed(dir, desired_dir) \/ turret_outside_firing_angle(firing_angle, dir)

\* A variant of Timer::reset that leaves the timer as it is.
Timer_reset_Kept(t, duration) == t

\* Timer::reset
Timer_reset(t, duration) == Timer_new(duration)

\* The systems of a frame that touch the turret.
TurretSystems == {"turret_reloading", "aim_turrets", "fire_bullets"}

\* SpawnShipCommand::apply: the TurretState of the mount.  shots counts the
\* bullets the fire_bullets of the frame queued, fired the shots so far
\* (up to two) and waited the time the reload timer was ticked since the
\* last shot, up to a reload.
SpawnShipCommand_apply_gun(instance) ==
    /\ gun.instance = 0
    /\ gun' = [instance |-> instance,
               dir |-> TurretMounts[instance].default_dir,
               reload_timer |-> Timer_new(TurretMounts[instance].reload_secs),
               aim_info |-> "NoValidTarget",
               targ_dir |-> <<>>,
               rotate_dir |-> 0,
               delta |-> 1,
               ran |-> TurretSystems,
               shots |-> 0,
               fired |-> 0,
               waited |-> 0]

\* The update of Time at the head of a frame.
time_update(delta) ==
    /\ gun.instance # 0
    /\ gun.ran = TurretSystems
    /\ gun' = [gun EXCEPT !.delta = delta, !.ran = {}, !.shots = 0]

turret_reloading_gun ==
    /\ gun.instance # 0
    /\ "turret_reloading" \notin gun.ran
    /\ gun' = [gun EXCEPT !.reload_timer = Timer_tick(@, gun.delta),
                          !.waited = Min(mount.reload_secs, @ + gun.delta),
                          !.ran = @ \cup {"turret_reloading"}]

\* aim_turrets on the turret: targ is <<>> when the selection found no
\* target, and else the direction of the solution for the selected one.
aim_turrets_gun(targ) ==
    /\ gun.instance # 0
    /\ "aim_turrets" \notin gun.ran
    /\ IF targ = <<>>
       THEN gun' = [gun EXCEPT !.aim_info = "NoValidTarget", !.targ_dir = <<>>,
                               !.rotate_dir = 0,
                               !.ran = @ \cup {"aim_turrets"}]
       ELSE LET dir == new_dir(mount.movement_angle, gun.dir, targ[1], gun.delta)
            IN  gun' = [gun EXCEPT
                          !.dir = dir,
                          !.targ_dir = targ,
                          !.rotate_dir = rotate_dir(mount.movement_angle, gun.dir, targ[1]),
                          !.aim_info =
                              IF turret_cant_fire_this_frame(mount.firing_angle, dir, targ[1])
                              THEN "AimingToTarget"
                              ELSE "AimedAtTarget",
                          !.ran = @ \cup {"aim_turrets"}]

\* fire_bullets on the turret, after turret_reloading and aim_turrets.
fire_bullets_gun ==
    /\ gun.instance # 0
    /\ "fire_bullets" \notin gun.ran
    /\ {"turret_reloading", "aim_turrets"} \subseteq gun.ran
    /\ IF gun.aim_info # "AimedAtTarget" \/ ~gun.reload_timer.finished
       THEN gun' = [gun EXCEPT !.ran = @ \cup {"fire_bullets"}]
       ELSE gun' = [gun EXCEPT
                      !.shots = mount.barrel_count,
                      !.reload_timer = Timer_reset(@, mount.reload_secs),
                      !.fired = Min(2, @ + 1),
                      !.waited = 0,
                      !.ran = @ \cup {"fire_bullets"}]

Targs == {<<>>} \cup {<<dir>> : dir \in Dirs}

TurretStep ==
    \/ \E instance \in DOMAIN TurretMounts : SpawnShipCommand_apply_gun(instance)
    \/ \E delta \in Deltas : time_update(delta)
    \/ turret_reloading_gun
    \/ \E targ \in Targs : aim_turrets_gun(targ)
    \/ fire_bullets_gun

TurretNext ==
    /\ TurretStep
    /\ UNCHANGED <<tracking, panicked, issued, retired, world, nextEntity,
                   cmdQueue, pc, cur, outbox, destroySent, idOf, kindOf,
                   shipState, processVars, reader, rotation, turretStates,
                   clamped, tubes, smokeUnit, arena, sched, mover, mm>>

TurretSpec == Init /\ [][TurretNext]_vars

(***************************************************************************)
(* SmokeSpec: the smoke consumable of one ship.                            *)
(* UseConsumableSmokeCommand::apply (networking.rs) past its tests of the  *)
(* id and the team, advance_smoke_cooldown and deploy_smoke (lib.rs), with *)
(* the times of the kiev template in seconds.  In a frame one of the two   *)
(* systems ticks the timers of the ship: advance_smoke_cooldown takes the  *)
(* ships Without<SmokeDeploying>, deploy_smoke those with it, the command  *)
(* inserts the component at once and the removal deploy_smoke queues is    *)
(* applied before the next frame.  A frame lasts 1..PuffPeriod seconds.    *)
(***************************************************************************)
\* Duration::from_secs(2) of puff_timer.
PuffPeriod == 2

\* The deployments of one ship that are counted.
MaxActivations == 4

\* consumables::Smoke
Smoke(action_time, cooldown, charges) ==
    [action_time |-> action_time, cooldown |-> cooldown, charges |-> charges]

\* The smoke of kiev, and the same with charges: 0 (infinite charges).
SmokeTemplates == {Smoke(10, 30, 3), Smoke(10, 30, 0)}

SmokeDeltas == 1..PuffPeriod

\* Timer::tick of a TimerMode::Repeating timer: finished in the tick that
\* completed a period, the rest of the time carried over.
Timer_tick_repeating(t, period, delta) ==
    [elapsed |-> (t.elapsed + delta) % period,
     finished |-> t.elapsed + delta >= period]

Timer_new_repeating == [elapsed |-> 0, finished |-> FALSE]

\* SpawnShipCommand::apply: SmokeConsumableState.  charges_unused is <<>>
\* for None.  since is the time ticked since the activation, puffs the
\* number of puffs of the deployment, last_puff the position of the last
\* of them, emitted whether the last frame emitted one, activations the
\* deployments started (up to MaxActivations), cooled the time
\* advance_smoke_cooldown has ticked since the spawn or the end of the last
\* deployment (up to the cooldown), and returned whether the last step was
\* a UseConsumableSmoke that returned without an activation.
SpawnShipCommand_apply_smoke(smoke, pos) ==
    /\ ~smokeUnit.spawned
    /\ smokeUnit' = [spawned |-> TRUE,
                     smoke |-> smoke,
                     pos |-> pos,
                     cooldown_timer |-> Timer_new(smoke.cooldown),
                     charges_unused |-> IF smoke.charges > 0 THEN <<smoke.charges>> ELSE <<>>,
                     deploying |-> FALSE,
                     action_timer |-> Timer_elapsed,
                     puff_timer |-> Timer_new_repeating,
                     since |-> 0,
                     puffs |-> 0,
                     last_puff |-> <<>>,
                     emitted |-> FALSE,
                     activations |-> 0,
                     cooled |-> 0,
                     returned |-> FALSE]

\* A variant of the test of the charges that lets an empty consumable pass.
charges_left_Always(charges_unused) == TRUE

\* charges_unused.unwrap_or(usize::MAX) == 0, negated
charges_left(charges_unused) == charges_unused = <<>> \/ charges_unused[1] # 0

\* UseConsumableSmokeCommand::apply on the ship
UseConsumableSmokeCommand_apply_smoke ==
    /\ smokeUnit.spawned
    /\ IF smokeUnit.deploying
       THEN smokeUnit' = [smokeUnit EXCEPT !.returned = TRUE]
       ELSE IF ~charges_left(smokeUnit.charges_unused)
       THEN smokeUnit' = [smokeUnit EXCEPT !.returned = TRUE]
       ELSE IF smokeUnit.cooldown_timer.finished
       THEN smokeUnit' =
              [smokeUnit EXCEPT
                 !.charges_unused = IF @ # <<>> THEN <<@[1] - 1>> ELSE @,
                 !.cooldown_timer = Timer_reset(@, smokeUnit.smoke.cooldown),
                 !.deploying = TRUE,
                 !.returned = FALSE,
                 !.action_timer = Timer_new(smokeUnit.smoke.action_time),
                 !.puff_timer = Timer_new_repeating,
                 !.since = 0,
                 !.puffs = 0,
                 !.last_puff = <<>>,
                 !.emitted = FALSE,
                 !.activations = Min(MaxActivations, @ + 1)]
       ELSE smokeUnit' = [smokeUnit EXCEPT !.returned = TRUE]

advance_smoke_cooldown_smoke(delta) ==
    /\ smokeUnit.spawned
    /\ ~smokeUnit.deploying
    /\ smokeUnit' = [smokeUnit EXCEPT
                       !.cooldown_timer = Timer_tick(@, delta),
                       !.cooled = Min(smokeUnit.smoke.cooldown, @ + delta),
                       !.returned = FALSE,
                       !.emitted = FALSE]

\* deploy_smoke, with the SpawnSmokePuffCommand and the removal of
\* SmokeDeploying it queues.
deploy_smoke_smoke(delta) ==
    /\ smokeUnit.spawned
    /\ smokeUnit.deploying
    /\ LET action_timer == Timer_tick(smokeUnit.action_timer, delta)
           puff_timer == Timer_tick_repeating(smokeUnit.puff_timer, PuffPeriod, delta)
           puff == puff_timer.finished \/ action_timer.finished
       IN  smokeUnit' =
             [smokeUnit EXCEPT
                !.action_timer = action_timer,
                !.puff_timer = puff_timer,
                !.since = @ + delta,
                !.puffs = IF puff THEN @ + 1 ELSE @,
                !.last_puff = IF puff THEN <<smokeUnit.pos>> ELSE @,
                !.emitted = puff,
                !.cooled = 0,
                !.returned = FALSE,
                !.deploying = ~action_timer.finished]

\* apply_velocity on the ship
apply_velocity_smoke(pos) ==
    /\ smokeUnit.spawned
    /\ pos # smokeUnit.pos
    /\ smokeUnit' = [smokeUnit EXCEPT !.pos = pos, !.returned = FALSE]

SmokeFrame ==
    \/ \E delta \in SmokeDeltas : advance_smoke_cooldown_smoke(delta)
    \/ \E delta \in SmokeDeltas : deploy_smoke_smoke(delta)

SmokeStep ==
    \/ \E smoke \in SmokeTemplates, pos \in 0..MaxCoord : SpawnShipCommand_apply_smoke(smoke, pos)
    \/ UseConsumableSmokeCommand_apply_smoke
    \/ SmokeFrame
    \/ \E pos \in 0..MaxCoord : apply_velocity_smoke(pos)

SmokeNext ==
    /\ SmokeStep
    /\ UNCHANGED <<tracking, panicked, issued, retired, world, nextEntity,
                   cmdQueue, pc, cur, outbox, destroySent, idOf, kindOf,
                   shipState, processVars, reader, rotation, turretStates,
                   clamped, tubes, gun, arena, sched, mover, mm>>

SmokeSpec == Init /\ [][SmokeNext]_vars

\* The frames of the Update schedule keep running.
SmokeFairSpec == SmokeSpec /\ WF_vars(SmokeFrame /\ SmokeNext)

(***************************************************************************)

(* HitSpec: collide_bullets and collide_torpedoes (lib.rs) with            *)
(* ProjectileHitCalc::run (formulas) on two ships and one projectile.      *)
(* Positions are points <<x, y, z>> of a grid, a ship lies flat and its    *)
(* bow points along one of the four axes (rot quarter turns from +x).  The *)
(* hull is three points long and one wide and reaches from the waterline,  *)
(* z = 0, to z = 1; a torpedo runs at z = 0.  A frame moves the            *)
(* projectile, runs the collision system of its kind and applies the       *)
(* commands that system queued.                                            *)
(***************************************************************************)
ArenaShips == 1..2

GridPoints == {<<x, y>> : x \in 0..MaxCoord, y \in 0..MaxCoord}

Altitudes == 0..2

\* Hull::to_bounds: <<min, max>>, centered at the origin.
to_bounds == << <<-1, 0, 0>>, <<1, 0, 1>> >>

\* The rotation of a vector about z by rot quarter turns.
quarter_turns(v, rot) ==
    LET r == rot % 4
    IN  IF r = 0 THEN v
        ELSE IF r = 1 THEN <<0 - v[2], v[1], v[3]>>
        ELSE IF r = 2 THEN <<0 - v[1], 0 - v[2], v[3]>>
        ELSE <<v[2], 0 - v[1], v[3]>>

\* Vec3::cmple(a, b).all()
cmple_all(a, b) == \A k \in 1..3 : a[k] <= b[k]

\* The test of ProjectileHitCalc::run: the projectile in the local space of
\* the hull, inside its bounds.
hull_contains(ship, projectile_pos) ==
    LET ship_rot_inv == 4 - ship.rot
        proj_pos == quarter_turns(<<projectile_pos[1] - ship.pos[1],
                                    projectile_pos[2] - ship.pos[2],
                                    projectile_pos[3]>>, ship_rot_inv)
    IN  cmple_all(to_bounds[1], proj_pos) /\ cmple_all(proj_pos, to_bounds[2])

\* A variant of skips_ship that does not look at the teams.
skips_ship_HealthOnly(projectile, ship) == ship.health <= 0

\* The two `continue` of the inner loop: the team of the projectile, and a
\* ship whose health is spent.
skips_ship(projectile, ship) == projectile.team = ship.team \/ ship.health <= 0

\* The ship is hit by the projectile in this run of the system.
is_hit(projectile, ship) ==
    /\ ship.alive
    /\ ~skips_ship(projectile, ship)
    /\ hull_contains(ship, projectile.pos)

\* The commands the inner loop queues, the ships taken in order.
RECURSIVE collide_commands(_, _, _)
collide_commands(projectile, ships, i) ==
    IF i > Len(ships) THEN <<>>
    ELSE LET ship == ships[i]
             queued == IF is_hit(projectile, ship)
                       THEN IF ship.health - projectile.damage <= 0
                            THEN <<0, i>>
                            ELSE <<0>>
                       ELSE <<>>
         IN  queued \o collide_commands(projectile, ships, i + 1)

\* SpawnShipCommand::apply for the two ships: an entity of the arena is a
\* ship, 1 or 2, or the projectile, 0.
SpawnShipCommand_apply_arena(ships) ==
    /\ ~arena.spawned
    /\ arena' = [spawned |-> TRUE,
                 ships |-> ships,
                 projectile |-> [kind |-> "none", team |-> 1, pos |-> <<0, 0, 0>>,
                                 damage |-> 0, alive |-> FALSE],
                 step |-> "move",
                 queue |-> <<>>,
                 hits |-> {}]

\* SpawnBulletCommand::apply, and the spawn of a torpedo by a volley.
spawn_projectile(kind, team, pos) ==
    /\ arena.spawned
    /\ arena.step = "move"
    /\ ~arena.projectile.alive
    /\ kind = "torpedo" => pos[3] = 0
    /\ arena' = [arena EXCEPT
                   !.projectile = [kind |-> kind, team |-> team, pos |-> pos,
                                   damage |-> IF kind = "torpedo" THEN 2 ELSE 1,
                                   alive |-> TRUE],
                   !.hits = {}]

\* move_bullets and apply_velocity: the projectile, where it is alive, at
\* its place of this frame.
move_projectile(pos) ==
    /\ arena.spawned
    /\ arena.step = "move"
    /\ arena.projectile.kind = "torpedo" => pos[3] = 0
    /\ arena' = [arena EXCEPT
                   !.projectile.pos = IF arena.projectile.alive THEN pos ELSE @,
                   !.step = "collide",
                   !.hits = {}]

\* collide_bullets or collide_torpedoes, by the kind of the projectile:
\* hits are the ships whose health it took from.
collide_projectiles ==
    /\ arena.spawned
    /\ arena.step = "collide"
    /\ LET projectile == arena.projectile
           hit == IF projectile.alive
                  THEN {i \in ArenaShips : is_hit(projectile, arena.ships[i])}
                  ELSE {}
       IN  arena' = [arena EXCEPT
                       !.ships = [i \in ArenaShips |->
                                    IF i \in hit
                                    THEN [@[i] EXCEPT !.health = @ - projectile.damage]
                                    ELSE @[i]],
                       !.queue = IF projectile.alive
                                 THEN collide_commands(projectile, arena.ships, 1)
                                 ELSE <<>>,
                       !.hits = hit,
                       !.step = "sync"]

\* The sync point: DespawnNetworkedEntityCommand::apply for the queued.
apply_deferred_arena ==
    /\ arena.spawned
    /\ arena.step = "sync"
    /\ arena' = [arena EXCEPT
                   !.ships = [i \in ArenaShips |->
                                IF i \in Range(arena.queue)
                                THEN [@[i] EXCEPT !.alive = FALSE]
                                ELSE @[i]],
                   !.projectile.alive = @ /\ 0 \notin Range(arena.queue),
                   !.queue = <<>>,
                   !.step = "move"]

ArenaShip(team, pos, rot) ==
    [team |-> team, pos |-> pos, rot |-> rot, health |-> 2, alive |-> TRUE]

\* Two ships: one of team 2 amidships, its bow along y, the other of either
\* team on the diagonal, its bow along x or against y.
ArenaFleets ==
    {<<ArenaShip(2, <<1, 1>>, 1), ArenaShip(team, <<x, x>>, rot)>> :
        team \in 1..2, x \in 0..MaxCoord, rot \in {0, 3}}

ProjectilePoints == {<<p[1], p[2], z>> : p \in GridPoints, z \in Altitudes}

HitStep ==
    \/ \E ships \in ArenaFleets : SpawnShipCommand_apply_arena(ships)
    \/ \E kind \in {"bullet", "torpedo"}, team \in 1..2, pos \in ProjectilePoints :
           spawn_projectile(kind, team, pos)
    \/ \E pos \in ProjectilePoints : move_projectile(pos)
    \/ collide_projectiles
    \/ apply_deferred_arena

HitNext ==
    /\ HitStep
    /\ UNCHANGED <<tracking, panicked, issued, retired, world, nextEntity,
                   cmdQueue, pc, cur, outbox, destroySent, idOf, kindOf,
                   shipState, processVars, reader, rotation, turretStates,
                   clamped, tubes, gun, smokeUnit, sched, mover, mm>>

HitSpec == Init /\ [][HitNext]_vars

(***************************************************************************)

(* ScheduleSpec: the schedules of start_match (lib.rs), NetworkingPlugin   *)
(* and DetectionPlugin.  A frame runs FixedUpdate (when the fixed          *)
(* timestep is due) and then Update; within a schedule the executor runs   *)
(* the systems in any order that keeps the .after constraints, and the     *)
(* commands a system queued are applied at a sync point: before a system   *)
(* ordered after it, and at the end of the schedule.  A system is the      *)
(* name of its function; "UpdateClientsSystem" is the set of the six       *)
(* send_* systems.                                                         *)
(***************************************************************************)
FixedUpdateSchedule == {"read_messages", "UpdateClientsSystem"}

UpdateSchedule ==
    {"update_ship_velocity", "apply_velocity", "force_ship_in_map",
     "move_bullets", "torpedo_reloading", "despawn_old_torpedoes",
     "collide_torpedoes", "collide_bullets", "turret_reloading",
     "update_turret_absolute_pos", "aim_turrets", "fire_bullets",
     "advance_smoke_cooldown", "deploy_smoke", "dissapate_smoke_puffs",
     "update_detection"}

\* The .after constraints: the systems a system is ordered after.
\* update_detection is in DetectionSystems.
ordered_after(system) ==
    CASE system = "apply_velocity" -> {"update_ship_velocity"}
      [] system = "force_ship_in_map" -> {"apply_velocity"}
      [] system = "despawn_old_torpedoes" -> {"apply_velocity"}
      [] system = "collide_torpedoes" -> {"apply_velocity"}
      [] system = "collide_bullets" -> {"move_bullets"}
      [] system = "update_detection" -> {"apply_velocity", "collide_bullets"}
      [] system = "aim_turrets" -> {"update_turret_absolute_pos"}
      [] system = "fire_bullets" -> {"turret_reloading", "aim_turrets", "update_detection"}
      [] OTHER -> {}

\* The systems with a Commands parameter that queue a spawn or a despawn.
QueuesCommands ==
    {"read_messages", "move_bullets", "despawn_old_torpedoes", "collide_torpedoes",
     "collide_bullets", "fire_bullets", "deploy_smoke", "dissapate_smoke_puffs"}

\* The phase of a tick a system belongs to: 1 inbound commands, 2
\* kinematics and projectiles, 3 collisions, 4 detection, 5 turrets, 6
\* replication; 0 for the reload and smoke timers, which are of no phase.
phase_of(system) ==
    CASE system = "read_messages" -> 1
      [] system \in {"update_ship_velocity", "apply_velocity", "force_ship_in_map",
                     "move_bullets", "despawn_old_torpedoes"} -> 2
      [] system \in {"collide_torpedoes", "collide_bullets"} -> 3
      [] system = "update_detection" -> 4
      [] system \in {"update_turret_absolute_pos", "aim_turrets", "fire_bullets"} -> 5
      [] system = "UpdateClientsSystem" -> 6
      [] OTHER -> 0

\* The system runs after one of a later phase has run in the frame.
runs_late(system, ran) ==
    phase_of(system) > 0 /\ \E s \in ran : phase_of(s) > phase_of(system)

\* The system runs while commands of an earlier phase are queued.
reads_before_applied(system, unapplied) ==
    \E s \in unapplied : 0 < phase_of(s) /\ phase_of(s) < phase_of(system)

RECURSIVE ordered_after_all(_)
\* The systems a system is ordered after, through other systems too.
ordered_after_all(system) ==
    LET direct == ordered_after(system)
    IN  direct \cup UNION {ordered_after_all(s) : s \in direct}

\* The frame has run FixedUpdate or found it not due.
start_frame(fixed_due) ==
    /\ sched.stage \in {"PreStartup", "Last"}
    /\ sched' = [stage |-> IF fixed_due THEN "FixedUpdate" ELSE "Update",
                 ran |-> {},
                 fixed_ran |-> <<>>,
                 unapplied |-> {},
                 is_detected |-> IF sched.stage = "PreStartup"
                                 THEN "spawn" ELSE "last frame",
                 aim_read |-> "none",
                 out_of_order |-> FALSE,
                 read_queued |-> FALSE]

\* A system of FixedUpdate runs; the commands of the schedule are applied
\* at its end.
run_fixed_system(system) ==
    /\ sched.stage = "FixedUpdate"
    /\ system \in FixedUpdateSchedule \ Range(sched.fixed_ran)
    /\ sched' = [sched EXCEPT
                   !.fixed_ran = Append(@, system),
                   !.out_of_order = @ \/ runs_late(system, Range(sched.fixed_ran)),
                   !.stage = IF Len(sched.fixed_ran) + 1 = Cardinality(FixedUpdateSchedule)
                             THEN "Update" ELSE @]

\* A system of Update runs.  A sync point stands before it when it is
\* ordered after a system that queues commands; the sync point applies the
\* commands of those systems, and (all_synced) of the others that ran
\* before it.
run_system(system, all_synced) ==
    /\ sched.stage = "Update"
    /\ system \in UpdateSchedule \ sched.ran
    /\ ordered_after(system) \subseteq sched.ran
    /\ LET sync_point == ordered_after(system) \cap QueuesCommands # {}
           applied == IF ~sync_point THEN {}
                      ELSE IF all_synced THEN sched.unapplied
                      ELSE sched.unapplied \cap ordered_after_all(system)
           unapplied == sched.unapplied \ applied
       IN  /\ ~sync_point => ~all_synced
           /\ sched' = [sched EXCEPT
                          !.ran = @ \cup {system},
                          !.unapplied = unapplied \cup ({system} \cap QueuesCommands),
                          !.is_detected = IF system = "update_detection" THEN "this frame" ELSE @,
                          !.aim_read = IF system = "aim_turrets" THEN sched.is_detected ELSE @,
                          !.out_of_order =
                              @ \/ runs_late(system, sched.ran \cup Range(sched.fixed_ran)),
                          !.read_queued = @ \/ reads_before_applied(system, unapplied)]

\* The end of Update: the commands still queued are applied.
end_frame ==
    /\ sched.stage = "Update"
    /\ sched.ran = UpdateSchedule
    /\ sched' = [sched EXCEPT !.stage = "Last", !.unapplied = {}]

ScheduleStep ==
    \/ \E fixed_due \in BOOLEAN : start_frame(fixed_due)
    \/ \E system \in FixedUpdateSchedule : run_fixed_system(system)
    \/ \E system \in UpdateSchedule, all_synced \in BOOLEAN : run_system(system, all_synced)
    \/ end_frame

ScheduleNext ==
    /\ ScheduleStep
    /\ UNCHANGED <<tracking, panicked, issued, retired, world, nextEntity,
                   cmdQueue, pc, cur, outbox, destroySent, idOf, kindOf,
                   shipState, processVars, reader, rotation, turretStates,
                   clamped, tubes, gun, smokeUnit, arena, mover, mm>>

ScheduleSpec == Init /\ [][ScheduleNext]_vars

(***************************************************************************)

(* MoveSpec: the MoveOrder of one ship.  read_messages replaces it on a    *)
(* SetMoveOrder of the owner (networking.rs), update_ship_velocity removes *)
(* the waypoint the ship has reached and reports the rest (lib.rs), and    *)
(* apply_velocity moves the ship.  Positions are points of a line.         *)
(***************************************************************************)
\* The longest list of waypoints a client sends.
MaxWaypoints == 2

\* The 5. of `next.distance(..) <= 5.', in points.
WaypointReach == 1

MovePoints == 0..(MaxCoord + 2)

\* The lists of waypoints of at most n points.
WaypointLists(n) == UNION {[1..k -> MovePoints] : k \in 0..n}

\* A variant that takes every waypoint as reached.
reached_waypoint_Always(waypoints, pos) == Len(waypoints) > 0

\* waypoints.get(0).is_some_and(|next| next.distance(pos) <= 5.)
reached_waypoint(waypoints, pos) ==
    /\ Len(waypoints) > 0
    /\ Abs(waypoints[1] - pos) <= WaypointReach

\* SpawnShipCommand::apply: a ship has no MoveOrder until its owner sends one.
SpawnShipCommand_apply_mover(team, pos) ==
    /\ ~mover.spawned
    /\ mover' = [spawned |-> TRUE, team |-> team, pos |-> pos,
                 move_order |-> <<>>, next |-> "read_messages",
                 sent |-> <<>>]

\* read_messages: each SetMoveOrder of the ship's owner replaces the
\* MoveOrder; one of another client is dropped with a warning.
RECURSIVE read_messages_orders(_, _, _)
read_messages_orders(msgs, team, move_order) ==
    IF msgs = <<>> THEN move_order
    ELSE read_messages_orders(Tail(msgs), team,
             IF Head(msgs).client = team THEN <<Head(msgs).waypoints>>
             ELSE move_order)

read_messages_mover(msgs) ==
    /\ mover.spawned
    /\ mover.next = "read_messages"
    /\ mover' = [mover EXCEPT
                   !.move_order = read_messages_orders(msgs, mover.team, @),
                   !.next = "update_ship_velocity"]

\* update_ship_velocity: the part that consumes the MoveOrder.
update_ship_velocity_mover ==
    /\ mover.spawned
    /\ mover.next = "update_ship_velocity"
    /\ IF mover.move_order # <<>> /\ reached_waypoint(mover.move_order[1], mover.pos)
       THEN LET waypoints == Tail(mover.move_order[1])
            IN  mover' = [mover EXCEPT
                            !.move_order = <<waypoints>>,
                            !.sent = <<[client |-> mover.team, type |-> "SetMoveOrder",
                                        waypoints |-> waypoints]>>,
                            !.next = "apply_velocity"]
       ELSE mover' = [mover EXCEPT !.sent = <<>>, !.next = "apply_velocity"]

\* apply_velocity: the ship moves by its velocity, here to pos.
apply_velocity_mover(pos) ==
    /\ mover.spawned
    /\ mover.next = "apply_velocity"
    /\ Abs(pos - mover.pos) <= 1
    /\ mover' = [mover EXCEPT !.pos = pos, !.next = "read_messages"]

MoveMsgs ==
    {<<>>} \cup
    {<<[client |-> client, waypoints |-> waypoints]>> :
         client \in ClientIds, waypoints \in WaypointLists(MaxWaypoints)}

MoveStep ==
    \/ \E team \in ClientIds, pos \in MovePoints : SpawnShipCommand_apply_mover(team, pos)
    \/ \E msgs \in MoveMsgs : read_messages_mover(msgs)
    \/ update_ship_velocity_mover
    \/ \E pos \in MovePoints : apply_velocity_mover(pos)

MoveNext ==
    /\ MoveStep
    /\ UNCHANGED <<tracking, panicked, issued, retired, world, nextEntity,
                   cmdQueue, pc, cur, outbox, destroySent, idOf, kindOf,
                   shipState, processVars, reader, rotation, turretStates,
                   clamped, tubes, gun, smokeUnit, arena, sched, mm>>

MoveSpec == Init /\ [][MoveNext]_vars

(***************************************************************************)

(* LobbySpec: the matchmaker of the lobby (wrts_lobby, match_handler.rs).  *)
(* main.rs accepts connections and gives each the next ClientId;           *)
(* matchmaker_runner takes one MatchmakerMessage at a time: it drops the   *)
(* clients that have disconnected, handles the message and makes a match   *)
(* of two clients that are ReadyForMatch.  A match is never removed from   *)
(* active_matches.                                                         *)
(***************************************************************************)
\* The connections the lobby accepts.
MaxLobbyClients == 4

LobbyClients == 1..MaxLobbyClients

\* ClientState; a client that is not in connected_clients has Absent.
Absent == [state |-> "Absent", match_id |-> 0]
InLobby == [state |-> "InLobby", match_id |-> 0]
ReadyForMatch == [state |-> "ReadyForMatch", match_id |-> 0]
InMatch(match_id) == [state |-> "InMatch", match_id |-> match_id]

\* Matchmaker::spawn: no match and no client.  accepted counts the
\* connections main.rs has accepted, disconnected holds the clients whose
\* token is cancelled or whose channel is closed, and msg is the message
\* the runner handled last.
Matchmaker_spawn ==
    /\ ~mm.spawned
    /\ mm' = [spawned |-> TRUE,
              active_matches |-> <<>>,
              connected_clients |-> [cl \in LobbyClients |-> Absent],
              accepted |-> 0,
              disconnected |-> {},
              msg |-> [type |-> "none", client |-> 0, is_ready |-> FALSE]]

\* MatchmakerMessage
ClientJoined(client_id) == [type |-> "ClientJoined", client |-> client_id, is_ready |-> FALSE]
Client2MM(client, is_ready) == [type |-> "SetReadyForMatch", client |-> client, is_ready |-> is_ready]

\* A variant in which a client that is InMatch may be made ready again.
SetReadyForMatch_InMatchToo(cl_data, is_ready) ==
    IF is_ready THEN ReadyForMatch ELSE InLobby

\* The match on cl_data.state for SetReadyForMatch { is_ready }.
SetReadyForMatch(cl_data, is_ready) ==
    IF cl_data.state \in {"InLobby", "ReadyForMatch"}
    THEN IF is_ready THEN ReadyForMatch ELSE InLobby
    ELSE cl_data

\* The clients the runner drops before it handles a message.
clients_disconnected(connected_clients, disconnected) ==
    {cl \in LobbyClients : connected_clients[cl] # Absent /\ cl \in disconnected}

\* The message reaches `Make a match if possible': the two `continue' of
\* SetReadyForMatch skip it.
reaches_matchmaking(connected_clients, msg) ==
    \/ msg.type = "ClientJoined"
    \/ /\ msg.type = "SetReadyForMatch"
       /\ connected_clients[msg.client].state \in {"InLobby", "ReadyForMatch"}

clients_ready_for_match(connected_clients) ==
    {cl \in LobbyClients : connected_clients[cl].state = "ReadyForMatch"}

\* matchmaker_runner: one turn of `while let Some(msg) = msgs.recv().await'.
\* The map is walked in any order, so any two of the ready clients are
\* taken, in any order.
matchmaker_runner(msg) ==
    /\ mm.spawned
    /\ LET kept == [cl \in LobbyClients |->
                      IF cl \in clients_disconnected(mm.connected_clients, mm.disconnected)
                      THEN Absent ELSE mm.connected_clients[cl]]
           handled == IF msg.type = "ClientJoined"
                      THEN [kept EXCEPT ![msg.client] = InLobby]
                      ELSE [kept EXCEPT ![msg.client] =
                                IF @ = Absent THEN @
                                ELSE SetReadyForMatch(@, msg.is_ready)]
           ready == clients_ready_for_match(handled)
       IN  IF reaches_matchmaking(kept, msg) /\ Cardinality(ready) >= 2
           THEN \E a, b \in ready :
                   /\ a # b
                   /\ LET match_id == Len(mm.active_matches) + 1
                      IN  mm' = [mm EXCEPT
                                   !.active_matches = Append(@, [id |-> match_id, clients |-> <<a, b>>]),
                                   !.connected_clients =
                                       [handled EXCEPT ![a] = InMatch(match_id),
                                                       ![b] = InMatch(match_id)],
                                   !.accepted = IF msg.type = "ClientJoined" THEN @ + 1 ELSE @,
                                   !.msg = msg]
           ELSE mm' = [mm EXCEPT
                         !.connected_clients = handled,
                         !.accepted = IF msg.type = "ClientJoined" THEN @ + 1 ELSE @,
                         !.msg = msg]

\* A connection ends: handle_connection returns and the token of the client
\* is cancelled.
handle_connection_returns(cl) ==
    /\ mm.spawned
    /\ cl \in 1..mm.accepted
    /\ cl \notin mm.disconnected
    /\ mm' = [mm EXCEPT !.disconnected = @ \cup {cl},
                        !.msg = [type |-> "none", client |-> 0, is_ready |-> FALSE]]

\* The messages that can reach the runner: the subscription of the next
\* connection main.rs accepts, and SetReadyForMatch of a client that has
\* subscribed.
MatchmakerMessages ==
    (IF mm.accepted < MaxLobbyClients THEN {ClientJoined(mm.accepted + 1)} ELSE {})
    \cup {Client2MM(cl, is_ready) : cl \in 1..mm.accepted, is_ready \in BOOLEAN}

LobbyStep ==
    \/ Matchmaker_spawn
    \/ mm.spawned /\ \E msg \in MatchmakerMessages : matchmaker_runner(msg)
    \/ \E cl \in LobbyClients : handle_connection_returns(cl)

LobbyNext ==
    /\ LobbyStep
    /\ UNCHANGED <<tracking, panicked, issued, retired, world, nextEntity,
                   cmdQueue, pc, cur, outbox, destroySent, idOf, kindOf,
                   shipState, processVars, reader, rotation, turretStates,
                   clamped, tubes, gun, smokeUnit, arena, sched, mover>>

LobbySpec == Init /\ [][LobbyNext]_vars

(***************************************************************************)

(* TrackerSpec: the tracker driven through its public operations with      *)
(* arbitrary arguments.                                                    *)
(***************************************************************************)
Locals == 1..MaxLocals

\* The ids a caller may pass: every index and version half that an id of a
\* bounded run can carry, and their neighbours.
IdArgs == (0..(MaxInserts + 1)) \X (0..(2 * MaxInserts + 1))

TrackerInit ==
    /\ tracking = SharedEntityTracking_default
    /\ panicked = FALSE
    /\ issued = <<>>
    /\ retired = {}
    /\ MatchIdle

TInsert(local) ==
    /\ ~panicked
    /\ Len(issued) < MaxInserts
    /\ LET r == insert(tracking, local)
       IN  /\ tracking' = r.tracking
           /\ issued' = Append(issued, r.id)
    /\ UNCHANGED <<panicked, retired>>
    /\ UNCHANGED matchOnlyVars

TRemoveByLocal(local) ==
    /\ ~panicked
    /\ LET r == remove_by_local(tracking, local)
       IN  /\ tracking' = r.tracking
           /\ panicked' = r.panic
           /\ retired' = IF r.id = NoId THEN retired ELSE retired \cup {r.id}
    /\ UNCHANGED issued
    /\ UNCHANGED matchOnlyVars

TRemoveByShared(shared) ==
    /\ ~panicked
    /\ LET r == remove_by_shared(tracking, shared)
       IN  /\ tracking' = r.tracking
           /\ panicked' = r.panic
           /\ retired' = IF r.id = NoId THEN retired ELSE retired \cup {r.id}
    /\ UNCHANGED issued
    /\ UNCHANGED matchOnlyVars

TrackerNext ==
    \/ \E local \in Locals : TInsert(local)
    \/ \E local \in Locals : TRemoveByLocal(local)
    \/ \E shared \in IdArgs : TRemoveByShared(shared)

TrackerSpec == TrackerInit /\ [][TrackerNext]_vars

(***************************************************************************)
(* Claims about the tracker (TrackerSpec).                                 *)
(***************************************************************************)
\* The issued ids that resolve now.
Resolvable == {id \in Range(issued) : get_by_shared(tracking, id) # NoEntity}

\* C1: after every call the live (local entity, shared id) pairs form a
\* bijection: a live id resolves to one entity whose get_by_local is that
\* id, an entity's id resolves back to the entity, and no two live ids
\* resolve to the same entity.
C1_Bijection ==
    /\ \A id \in Resolvable :
          get_by_local(tracking, get_by_shared(tracking, id)) = id
    /\ \A local \in Locals :
          get_by_local(tracking, local) # NoId
             => get_by_shared(tracking, get_by_local(tracking, local)) = local
    /\ \A id1, id2 \in Resolvable :
          get_by_shared(tracking, id1) = get_by_shared(tracking, id2) => id1 = id2

\* C2: a removed id never resolves again, by get_by_shared or by
\* remove_by_shared, whatever inserts follow, and insert never returns an id
\* it returned before.
C2_RetiredNeverReused ==
    /\ \A id \in retired :
          /\ get_by_shared(tracking, id) = NoEntity
          /\ remove_by_shared(tracking, id).id = NoId
          /\ remove_by_shared(tracking, id).tracking = tracking
    /\ \A i, j \in DOMAIN issued : i # j => issued[i] # issued[j]

\* A slot that held a removed id holds a later, live id.
C2_Witness ==
    \E id \in retired : \E later \in Resolvable :
       /\ later[1] = id[1]
       /\ later[2] > id[2]
       /\ get_by_shared(tracking, id) = NoEntity


(***************************************************************************)
(* Claims about the match.                                                 *)
(***************************************************************************)
\* The command that is being applied is a despawn of e that has not
\* reached its end.
MidDespawn(e) == pc \in {"despawn_retire", "despawn_notify"} /\ cur.entity = e

\* The positions in outbox of the messages of a type about an id.
MsgsAbout(box, type, id) ==
    {i \in DOMAIN box : box[i].type = type /\ box[i].id = id}

\* C3: when a tracked ship has been despawned by
\* DespawnNetworkedEntityCommand, a DestroyEntity with exactly the ship's
\* shared id has been queued to each of the two clients and get_by_shared
\* of the id returns none; the command queues one DestroyEntity per client
\* and nothing else.
C3_ShipDespawnNotifiesBoth ==
    /\ \A e \in Entities :
          (kindOf[e] = "ship" /\ e \notin Alive /\ ~MidDespawn(e)) =>
              /\ \A cl \in ClientIds : <<cl, idOf[e]>> \in destroySent
              /\ get_by_shared(tracking, idOf[e]) = NoEntity
    /\ \A i \in DOMAIN outbox :
          outbox[i].type = "DestroyEntity" =>
              /\ Len(outbox) = Cardinality(ClientIds)
              /\ \A cl \in ClientIds :
                    Cardinality({j \in MsgsAbout(outbox, "DestroyEntity", outbox[i].id) :
                                    outbox[j].client = cl}) = 1

\* A ship has just been despawned: the two DestroyEntity messages with its
\* id are the last thing queued.
C3_Witness ==
    \E e \in Entities :
        /\ kindOf[e] = "ship"
        /\ e \notin Alive
        /\ Len(outbox) = 2
        /\ \A i \in DOMAIN outbox :
              outbox[i].type = "DestroyEntity" /\ outbox[i].id = idOf[e]

\* C4: whenever the backing entity of a tracked entity has been freed, its
\* shared id has already been retired and the DestroyEntity notification
\* has already been queued to the clients.
C4_RetiredAndNotifiedBeforeFreed ==
    \A e \in Entities :
        (idOf[e] # NoId /\ e \notin Alive) =>
            /\ get_by_shared(tracking, idOf[e]) = NoEntity
            /\ \A cl \in ClientIds : <<cl, idOf[e]>> \in destroySent

SpawnTypes == {"SpawnShip", "SpawnBullet", "SpawnTorpedo", "SpawnSmokePuff"}

\* C5: between operations every ship, bullet, torpedo and smoke puff of the
\* world has a registered shared id, and a spawn queues exactly one spawn
\* message with the fresh id to every client.
C5_SpawnRegistersAndAnnounces ==
    /\ pc \in {"idle", "flush"} =>
          \A e \in Alive :
              /\ get_by_local(tracking, e) # NoId
              /\ get_by_shared(tracking, get_by_local(tracking, e)) = e
    /\ \A i \in DOMAIN outbox :
          outbox[i].type \in SpawnTypes =>
              /\ \E e \in Alive : idOf[e] = outbox[i].id
              /\ \A cl \in ClientIds :
                    Cardinality({j \in MsgsAbout(outbox, outbox[i].type, outbox[i].id) :
                                    outbox[j].client = cl}) = 1

\* C6: a step never queues to a client a message whose id, or whose owning
\* ship, is an id that a DestroyEntity queued to that client before the
\* step carried.
C6_NoMessageAfterDestroy ==
    [][\A i \in DOMAIN outbox' :
          /\ <<outbox'[i].client, outbox'[i].id>> \notin destroySent
          /\ <<outbox'[i].client, outbox'[i].owner>> \notin destroySent]_vars

\* A client that was told of the destruction of an id is sent a message
\* about the entity that took over the slot of that id.
C6_Witness ==
    \E d \in destroySent : \E i \in DOMAIN outbox :
        /\ outbox[i].client = d[1]
        /\ outbox[i].type # "DestroyEntity"
        /\ outbox[i].id[1] = d[2][1]

\* C7: a run of the replication systems queues the SetTrans and the
\* SetVelocity of an entity whose DetectionStatus says is_detected = FALSE
\* to the client of the entity's team and to no other client.
C7_UndetectedOnlyToOwner ==
    [][UpdateClientsSystem(Alive, Ships) =>
          \A e \in Alive :
              (HasDetectionStatus(e) /\ ~world[e].is_detected) =>
                  \A type \in {"SetTrans", "SetVelocity"} :
                      /\ MsgsAbout(outbox', type, idOf[e]) # {}
                      /\ \A i \in MsgsAbout(outbox', type, idOf[e]) :
                            outbox'[i].client = world[e].team]_vars

\* The systems have just run with an undetected ship, whose SetTrans went
\* to its owner, and a detected one, whose SetTrans went to the enemy too.
C7_Witness ==
    \E e, f \in Ships :
        /\ ~world[e].is_detected
        /\ world[f].is_detected
        /\ \E i \in MsgsAbout(outbox, "SetTrans", idOf[e]) :
              outbox[i].client = world[e].team
        /\ \E i \in MsgsAbout(outbox, "SetTrans", idOf[f]) :
              outbox[i].client # world[f].team

\* C8: every SetReloadedTorps and every SetSmokeConsumableState in the
\* outbox is addressed to the client that owns the ship it is about.
C8_ReloadAndSmokeOnlyToOwner ==
    \A i \in DOMAIN outbox :
        outbox[i].type \in {"SetReloadedTorps", "SetSmokeConsumableState"} =>
            \A e \in Ships :
                idOf[e] = outbox[i].id => outbox[i].client = world[e].team

\* C9: a detection update queues SetDetection about an entity exactly when
\* the update changed the entity's is_detected, and then one to each client
\* with the new value; it queues nothing else.
C9_SetDetectionOnTransition ==
    [][update_detection =>
          /\ \A e \in {x \in Alive : HasDetectionStatus(x)} :
                LET msgs == MsgsAbout(outbox', "SetDetection", idOf[e])
                IN  IF world'[e].is_detected # world[e].is_detected
                    THEN /\ \A cl \in ClientIds :
                               Cardinality({i \in msgs : outbox'[i].client = cl}) = 1
                         /\ \A i \in msgs :
                               outbox'[i].flag = world'[e].is_detected
                    ELSE msgs = {}
          /\ \A i \in DOMAIN outbox' :
                /\ outbox'[i].type = "SetDetection"
                /\ \E e \in Alive : HasDetectionStatus(e) /\ idOf[e] = outbox'[i].id]_vars

\* An update has just found a ship detected that was not: one SetDetection
\* with TRUE to each client is all that was queued.
C9_Witness ==
    \E e \in Ships :
        /\ world[e].is_detected
        /\ Len(outbox) = 2
        /\ \A i \in DOMAIN outbox :
              /\ outbox[i].type = "SetDetection"
              /\ outbox[i].id = idOf[e]
              /\ outbox[i].flag

\* The effective detection range of detectee e toward detector d before an
\* update: the floor MIN_DETECTION under the firing range when the boost
\* still runs after this tick and no smoke lies between, the range when
\* firing through smoke when it runs and smoke lies between, and otherwise
\* the base detection, which smoke cuts to the floor.
Boosted(e) ==
    /\ world[e].kind = "ship"
    /\ ~world[e].detection_increased_by_firing.finished
    /\ world[e].detection_increased_by_firing.remaining > Dt

SmokeBetween(d, e) ==
    \E p \in Alive :
        /\ world[p].kind = "smoke"
        /\ \E x \in Coord :
              /\ Min(world[d].pos, world[e].pos) <= x
              /\ x <= Max(world[d].pos, world[e].pos)
              /\ Abs(x - world[p].pos) <= world[p].radius

EffectiveRange(e, d) ==
    LET base == IF Boosted(e)
                THEN IF SmokeBetween(d, e)
                     THEN ShipTemplate(world[e].tmpl).detection_when_firing_through_smoke
                     ELSE world[e].detection_increased_by_firing_at_range
                ELSE IF SmokeBetween(d, e) THEN MIN_DETECTION
                ELSE world[e].base_detection
    IN  Max(MIN_DETECTION, base)

\* C10: after a detection update an entity with a DetectionStatus is marked
\* is_detected exactly when some ship of the other team is no farther from
\* it than its effective detection range; ships of its own team do not
\* count.
C10_DetectedIffOpposingDetectorInRange ==
    [][update_detection =>
          \A e \in {x \in Alive : HasDetectionStatus(x)} :
              world'[e].is_detected <=>
                  \E d \in Ships :
                      /\ world[d].team # world[e].team
                      /\ Abs(world[d].pos - world[e].pos) <= EffectiveRange(e, d)]_vars

\* An update has just marked an enemy ship detected, and has left a torpedo
\* undetected that lies within the floor range of a ship of its own team.
C10_Witness ==
    \E e \in Alive, own, f \in Ships :
        /\ world[e].kind = "torpedo"
        /\ ~world[e].is_detected
        /\ world[own].team = world[e].team
        /\ Abs(world[own].pos - world[e].pos) <= MIN_DETECTION
        /\ world[f].is_detected
        /\ MsgsAbout(outbox, "SetDetection", idOf[f]) # {}

\* The range a ship's detection is boosted to when it fires: the max_range
\* of its turret.
FiringBoostValue(e) == ShipTemplate(world[e].tmpl).max_range

Opposing(e) == {d \in Ships : world[d].team # world[e].team}

\* The range within which a detectee is detected through smoke: the range
\* when firing through smoke while its boost runs, the floor otherwise.
RangeThroughSmoke(e) ==
    Max(MIN_DETECTION,
        IF Boosted(e)
        THEN ShipTemplate(world[e].tmpl).detection_when_firing_through_smoke
        ELSE MIN_DETECTION)

\* C11 as stated: a ship whose every opposing detector is behind smoke and
\* nearer than its firing-boost value is not detected by the update.
C11_SmokeHidesBelowBoost ==
    [][update_detection =>
          \A e \in Ships :
              (/\ Opposing(e) # {}
               /\ \A d \in Opposing(e) :
                     /\ SmokeBetween(d, e)
                     /\ Abs(world[d].pos - world[e].pos) < FiringBoostValue(e))
              => ~world'[e].is_detected]_vars

\* C11: when smoke lies between a detectee and every opposing detector, the
\* update marks it detected exactly when one of them is within the range
\* through smoke: the floor MIN_DETECTION, or the range when firing through
\* smoke while the boost runs.  The base detection and the boosted range do
\* not count.
C11_SmokeCutsRange ==
    [][update_detection =>
          \A e \in {x \in Alive : HasDetectionStatus(x)} :
              (\A d \in Opposing(e) : SmokeBetween(d, e))
              => (world'[e].is_detected <=>
                    \E d \in Opposing(e) :
                        Abs(world[d].pos - world[e].pos) <= RangeThroughSmoke(e))]_vars

\* An update has left a ship undetected (it zeroed the boost timer) that
\* lies behind smoke from an enemy ship, beyond the floor but within its
\* base detection.
C11_Witness ==
    \E e, d \in Ships :
        /\ world[d].team # world[e].team
        /\ SmokeBetween(d, e)
        /\ Abs(world[d].pos - world[e].pos) > MIN_DETECTION
        /\ Abs(world[d].pos - world[e].pos) <= world[e].base_detection
        /\ ~world[e].is_detected
        /\ world[e].detection_increased_by_firing = Timer_new(0)

\* The firing-boost countdown of e has elapsed, or elapses in this tick.
CountdownElapsed(e) ==
    \/ world[e].detection_increased_by_firing.finished
    \/ world[e].detection_increased_by_firing.remaining <= Dt

\* The range at which d detects e when e has no boost: its base detection,
\* cut to the floor by smoke.
UnboostedRange(e, d) ==
    Max(MIN_DETECTION,
        IF SmokeBetween(d, e) THEN MIN_DETECTION ELSE world[e].base_detection)

\* C12: an update that finds a ship's firing-boost countdown elapsed decides
\* its detection by the unboosted range alone, whatever range its earlier
\* firing left in detection_increased_by_firing_at_range.
C12_ElapsedBoostLeavesBaseRange ==
    [][update_detection =>
          \A e \in Ships :
              CountdownElapsed(e)
              => (world'[e].is_detected <=>
                    \E d \in Opposing(e) :
                        Abs(world[d].pos - world[e].pos) <= UnboostedRange(e, d))]_vars

\* A ship that fired (its boosted range exceeds its base detection) has just
\* gone from detected to undetected with an enemy ship in clear sight inside
\* the boosted range but outside the base detection.
C12_Witness ==
    \E e, d \in Ships :
        /\ world[d].team # world[e].team
        /\ world[e].detection_increased_by_firing_at_range > world[e].base_detection
        /\ ~SmokeBetween(d, e)
        /\ Abs(world[d].pos - world[e].pos) <= world[e].detection_increased_by_firing_at_range
        /\ Abs(world[d].pos - world[e].pos) > world[e].base_detection
        /\ ~world[e].is_detected
        /\ \E i \in DOMAIN outbox :
              /\ outbox[i].type = "SetDetection"
              /\ outbox[i].id = idOf[e]

(***************************************************************************)
(* Claims about the messages of the clients (CommandSpec).                 *)
(***************************************************************************)
\* The id of a message does not resolve, or resolves to an entity whose
\* Team is not the sender.
Rejected(client, id) ==
    \/ get_by_shared(tracking, id) = NoEntity
    \/ world[get_by_shared(tracking, id)].team # client

\* The simulation: the entities and their components, and the tracker.
SimState == <<world, shipState, nextEntity, tracking, issued, retired, idOf, kindOf>>

\* The command a message of read_messages stands behind.
CommandOfMsg(type) ==
    CASE type = "SetMoveOrder" -> {"InsertMoveOrder"}
      [] type = "SetFireTarg" -> {"InsertFireTarget", "TryRemoveFireTarget"}
      [] OTHER -> {}

\* C13: read_messages changes no simulation state and queues a MoveOrder or
\* FireTarget command on an entity only for a message of that kind whose id
\* resolves to it and whose sender is its Team; a message it drops does not
\* keep it from queuing the command of a later one.  A LaunchTorpedoVolley
\* or UseConsumableSmoke command whose ship id does not resolve or whose
\* sender is not the ship's Team is applied without any change of the
\* simulation, without a panic, and the next command is applied after it.
C13_RejectedCommandChangesNothing ==
    [][/\ \A msgs \in Inbound :
             read_messages(msgs) =>
                 /\ UNCHANGED SimState
                 /\ ~panicked'
                 /\ \A i \in DOMAIN cmdQueue' :
                       cmdQueue'[i].type \in {"InsertMoveOrder", "InsertFireTarget",
                                              "TryRemoveFireTarget"}
                       => \E k \in DOMAIN msgs :
                             /\ cmdQueue'[i].type \in CommandOfMsg(msgs[k].type)
                             /\ ~Rejected(msgs[k].client, msgs[k].id)
                             /\ get_by_shared(tracking, msgs[k].id) = cmdQueue'[i].entity
                 /\ \A k \in DOMAIN msgs :
                       (msgs[k].type = "SetMoveOrder"
                        /\ ~Rejected(msgs[k].client, msgs[k].id))
                       => \E i \in DOMAIN cmdQueue' :
                             cmdQueue'[i] =
                                InsertMoveOrder(get_by_shared(tracking, msgs[k].id),
                                                msgs[k].waypoints)
       /\ ((\/ \E can_fire \in BOOLEAN : LaunchTorpedoVolleyCommand_apply(can_fire)
            \/ ApplyUseConsumableSmoke)
           /\ Rejected(Head(cmdQueue).team, Head(cmdQueue).shared))
          => /\ UNCHANGED SimState
             /\ ~panicked'
             /\ cmdQueue' = Tail(cmdQueue)]_vars

\* The command about to be applied is a LaunchTorpedoVolley of the enemy of
\* a live ship that has a volley reloaded, with a second command behind it.
C13_Witness ==
    /\ pc = "flush"
    /\ Len(cmdQueue) >= 1
    /\ Head(cmdQueue).type = "LaunchTorpedoVolley"
    /\ LET local == get_by_shared(tracking, Head(cmdQueue).shared)
       IN  /\ local \in Ships
           /\ world[local].team # Head(cmdQueue).team
           /\ ReloadedVolley(local) # 0

(***************************************************************************)
(* Claims about the process and its handshake (ProcessSpec).               *)
(***************************************************************************)
\* The clients a message of the given kind was queued for in the handshake.
SentTo(kind) == {sentLog[i].client : i \in {j \in DOMAIN sentLog : sentLog[j].kind = kind}}

\* The handshake is past its wait for the identities.
PastIdentityWait == "InitC" \in {sentLog[i].kind : i \in DOMAIN sentLog} \/ ticks > 0

\* C14: the process consumes the one init message before it produces any
\* output, then sends InitA to each of the two named clients, waits until it
\* has the identity (InitB) of exactly two clients, and only then sends the
\* InitC roster and runs the first simulation tick.
C14_RosterOnlyAfterAllIdentities ==
    /\ mainPc = "recv_init" => sentLog = <<>> /\ msgs_tx = <<>> /\ pipe = <<>>
    /\ PastIdentityWait =>
          /\ SentTo("InitA") = Range(MatchClients)
          /\ Cardinality(infos) = NumClients

\* The part of C14 that every run keeps: no output before the init message,
\* InitA to both clients before any InitC, as many InitB messages consumed
\* as there are clients before any InitC, and a first tick only with the
\* identities of two clients.
C14_OrderKept ==
    /\ mainPc = "recv_init" => sentLog = <<>> /\ msgs_tx = <<>> /\ pipe = <<>>
    /\ PastIdentityWait => SentTo("InitA") = Range(MatchClients)
    /\ PastIdentityWait => mainPc \notin {"recv_init", "send_initA", "recv_initB"}
    /\ ticks > 0 => Cardinality(infos) = NumClients /\ clientInfos = infos

\* The run C14 fails on: the roster went out on the identity of one client.
C14_RosterOnOneIdentity ==
    /\ "InitC" \in {sentLog[i].kind : i \in DOMAIN sentLog}
    /\ Cardinality(infos) = 1

\* C15: when the inbound channel disconnects while network_handshake waits
\* for the identities, no simulation tick is ever run and the process exits
\* with a status other than zero.
C15_HandshakeDisconnectIsFatal ==
    /\ [](hsError = "disconnected" => ticks = 0 /\ exitCode \in {None, PanicStatus})
    /\ (hsError = "disconnected" ~> exitCode = PanicStatus)

\* The handshake met the disconnected channel and the process has exited.
C15_Witness ==
    /\ hsError = "disconnected"
    /\ exitRequested
    /\ mainPc = "exited"
    /\ exitCode = PanicStatus
    /\ ticks = 0

\* C16: after the handshake, when one client leaves, the simulation keeps
\* ticking for the other: from a state in which the frames run and both
\* clients are connected, no AppExit is written and the process does not
\* exit, whichever client leaves afterwards.
C16_DepartureLeavesMatchRunning ==
    [](mainPc = "poll" /\ connected = Range(MatchClients)
          => [](~exitRequested /\ exitCode = None))

\* The run C16 fails on: the frames ran, a client left, and read_messages
\* found the inbound channel disconnected.
C16_DepartureEndsMatch ==
    /\ ticks > 0
    /\ connected # Range(MatchClients)
    /\ ~routerAlive
    /\ ~stdinOpen
    /\ ~handlerAlive
    /\ exitRequested
    /\ hsError = "none"
    /\ exitCode = 0

\* The main thread is in a frame: the handshake and Startup are behind it.
InFrames == exitCode = None /\ mainPc \in {"poll", "send", "update_send", "update", "frame_end"}

\* C17: after the handshake no step of the simulation thread waits on a
\* channel: whatever the outbound channel holds and whatever stdout_handler
\* does, the next step of the main thread can be taken.
C17_SimulationThreadNeverWaits == InFrames => ENABLED MainThread

\* The part of C17 about the inbound channel: read_messages can always take
\* its next turn, whether the channel holds a message, is empty or is
\* disconnected.
C17_PollNeverWaits == exitCode = None /\ mainPc = "poll" => ENABLED read_messages_try_recv

\* The run C17 fails on: the main thread waits in SyncSender::send on the
\* full channel while stdout_handler waits on the full pipe of a reader
\* that does not read.
C17_SendWaitsOnFullChannel ==
    /\ SendBlocked
    /\ exitCode = None
    /\ pipeOpen
    /\ Len(pipe) = PipeCap
    /\ ~ENABLED MainThread
    /\ ~ENABLED stdout_handler

(***************************************************************************)
(* Claims about the framing (FrameSpec).                                   *)
(***************************************************************************)
\* C18: a receiver that reads a frame whose length prefix is above the limit
\* of 1 MiB returns an error with no payload buffer allocated and no byte
\* read beyond the four of the prefix.
C18_OverLimitRejectedBeforeAlloc ==
    reader.length_prefix > limit =>
        /\ reader.pc = "done"
        /\ reader.result = "Err(limit)"
        /\ reader.data = None
        /\ reader.taken = 4

\* A prefix one above the limit, with a byte of payload behind it, was
\* rejected.
C18_Witness ==
    /\ reader.length_prefix = limit + 1
    /\ reader.result = "Err(limit)"
    /\ reader.stream # <<>>

(***************************************************************************)
(* C19: when aim_turrets has run, a turret in mode Primary has a target    *)
(* (AimingToTarget or AimedAtTarget) only if the target is the FireTarget  *)
(* of its ship, the FireTarget is detected as aim_turrets reads it, and    *)
(* the bullet problem against it has a solution whose intersection         *)
(* distance is below the max_range of the turret; in every other case the  *)
(* turret is left with NoValidTarget.                                      *)
(***************************************************************************)
PrimaryEligible(ship, turret) ==
    LET targ == shipState[ship].fire_target
    IN  /\ targ # NoEntity
        /\ world[targ].is_detected
        /\ LET bp == bullet_problem(world[ship].pos, world[targ].pos, world[targ].vel)
           IN  bp.some /\ bp.intersection_dist < turret.max_range

C19_PrimaryOnlyFireTarget ==
    [][aim_turrets =>
         \A ship \in Ships : \A i \in DOMAIN turret_instances(world[ship].tmpl) :
             LET turret == turret_instances(world[ship].tmpl)[i]
                 info == turretStates'[ship][i]
             IN  turret.targeting_mode = "Primary" =>
                     IF info.status \in {"AimingToTarget", "AimedAtTarget"}
                     THEN /\ info.target = shipState[ship].fire_target
                          /\ PrimaryEligible(ship, turret)
                     ELSE info = NoValidTarget]_vars

\* A Primary turret holds the detected fire target of its ship after
\* aim_turrets, and the other Primary turret of some ship holds none.
C19_Witness ==
    \E ship \in Ships : \E i \in DOMAIN turretStates[ship] :
        /\ turret_instances(world[ship].tmpl)[i].targeting_mode = "Primary"
        /\ turretStates[ship][i].status \in {"AimingToTarget", "AimedAtTarget"}
        /\ turretStates[ship][i].target = shipState[ship].fire_target
        /\ world[turretStates[ship][i].target].is_detected
        /\ \E other \in Ships : \E j \in DOMAIN turretStates[other] :
               /\ turret_instances(world[other].tmpl)[j].targeting_mode = "Primary"
               /\ shipState[other].fire_target # NoEntity
               /\ turretStates[other][j] = NoValidTarget

(***************************************************************************)
(* C20: when aim_turrets has run, a turret in mode Secondary has selected  *)
(* the FireTarget of its ship whenever the bullet problem against it has a *)
(* solution below max_range inside the firing angle of the turret;         *)
(* otherwise the first ship of the other team, by ascending distance, with *)
(* such a solution; and it has NoValidTarget only when no ship of the      *)
(* other team has one.  As stated, without regard to whether the ships are *)
(* detected, it does not hold (C20_SecondarySelectsSolvable); it holds     *)
(* when the target has to be a detected ship of the other team             *)
(* (C20_SecondarySelectsDetected).                                         *)
(***************************************************************************)
\* The bullet problem against targ has a solution below max_range that is
\* inside the firing angle of the turret.
SolvableInAngle(ship, turret, targ) ==
    LET bp == bullet_problem(world[ship].pos, world[targ].pos, world[targ].vel)
    IN  /\ bp.some
        /\ bp.intersection_dist < turret.max_range
        /\ bp.projectile_azimuth * rotation[ship] \in turret.valid_angle

\* target is a nearest of the candidates.
FirstByDistance(ship, target, candidates) ==
    /\ target \in candidates
    /\ \A u \in candidates : distance_squared(target, ship) <= distance_squared(u, ship)

C20_SecondarySelectsSolvable ==
    [][aim_turrets =>
         \A ship \in Ships : \A i \in DOMAIN turret_instances(world[ship].tmpl) :
             LET turret == turret_instances(world[ship].tmpl)[i]
                 info == turretStates'[ship][i]
                 ft == shipState[ship].fire_target
                 candidates == {t \in ships_by_team(team_opposite(world[ship].team)) :
                                   SolvableInAngle(ship, turret, t)}
             IN  turret.targeting_mode = "Secondary" =>
                     IF ft # NoEntity /\ SolvableInAngle(ship, turret, ft)
                     THEN info.target = ft
                     ELSE IF candidates # {}
                     THEN FirstByDistance(ship, info.target, candidates)
                     ELSE info = NoValidTarget]_vars

C20_SecondarySelectsDetected ==
    [][aim_turrets =>
         \A ship \in Ships : \A i \in DOMAIN turret_instances(world[ship].tmpl) :
             LET turret == turret_instances(world[ship].tmpl)[i]
                 info == turretStates'[ship][i]
                 ft == shipState[ship].fire_target
                 candidates == {t \in ships_by_team(team_opposite(world[ship].team)) :
                                   world[t].is_detected /\ SolvableInAngle(ship, turret, t)}
             IN  turret.targeting_mode = "Secondary" =>
                     IF ft \in candidates
                     THEN /\ info.target = ft
                          /\ info.status \in {"AimingToTarget", "AimedAtTarget"}
                     ELSE IF candidates # {}
                     THEN /\ FirstByDistance(ship, info.target, candidates)
                          /\ info.status \in {"AimingToTarget", "AimedAtTarget"}
                     ELSE info = NoValidTarget]_vars

\* After aim_turrets one Secondary turret holds the fire target of its
\* ship, and a Secondary turret of a ship whose fire target is a ship of
\* the other team that is not detected holds another ship, the nearer of
\* the two detected ships its firing angle has.
C20_Witness ==
    /\ \E ship \in Ships : \E i \in DOMAIN turretStates[ship] :
           /\ turret_instances(world[ship].tmpl)[i].targeting_mode = "Secondary"
           /\ turretStates[ship][i].target # NoEntity
           /\ turretStates[ship][i].target = shipState[ship].fire_target
    /\ \E ship \in Ships : \E i \in DOMAIN turretStates[ship] :
           LET turret == turret_instances(world[ship].tmpl)[i]
               ft == shipState[ship].fire_target
               target == turretStates[ship][i].target
           IN  /\ turret.targeting_mode = "Secondary"
               /\ ft # NoEntity
               /\ world[ft].team # world[ship].team
               /\ ~world[ft].is_detected
               /\ target \notin {NoEntity, ft}
               /\ world[target].is_detected
               /\ SolvableInAngle(ship, turret, target)

(***************************************************************************)
(* C22: for any AngleRange and any direction v, clamp_angle returns v      *)
(* when the range contains v, either endpoint included; otherwise it       *)
(* returns the start or the end of the range, the one angularly nearer to  *)
(* v; the result is contained in the range, and clamping it again returns  *)
(* it.                                                                     *)
(***************************************************************************)
\* v lies on the sweep counter-clockwise from the start to the end.
OnSweep(range, v) == (v - range.from) % Circle <= (range.to - range.from) % Circle

\* The angle between two directions, without its sign.
AngularDistance(a, b) == Min((b - a) % Circle, (a - b) % Circle)

C22_ClampAngle ==
    clamped.called =>
        LET range == AngleRange(clamped.from, clamped.to)
            v == clamped.v
            out == clamped.out
        IN  /\ contains(range, range.from) /\ contains(range, range.to)
            /\ range.from # range.to => (contains(range, v) <=> OnSweep(range, v))
            /\ contains(range, v) => out = v
            /\ ~contains(range, v) =>
                   /\ out \in {range.from, range.to}
                   /\ AngularDistance(out, v) =
                          Min(AngularDistance(range.from, v), AngularDistance(range.to, v))
            /\ contains(range, out)
            /\ clamp_angle(range, out) = out

\* A direction outside the range was clamped to the end of the range, the
\* nearer of the two.
C22_Witness ==
    /\ clamped.called
    /\ clamped.from # clamped.to
    /\ ~OnSweep(AngleRange(clamped.from, clamped.to), clamped.v)
    /\ clamped.out = clamped.to
    /\ AngularDistance(clamped.to, clamped.v) < AngularDistance(clamped.from, clamped.v)

(***************************************************************************)
(* C23: a LaunchTorpedoVolley command spawns torpedoes only if the         *)
(* commanded direction lies in the port firing arc of the ship or in the   *)
(* starboard arc, its mirror image, both turned by the heading of the      *)
(* ship, and the reload timer of some volley has finished.  A launch       *)
(* resets one finished timer, leaves the others, and spawns                *)
(* torps_per_volley torpedoes; a rejected command resets no timer and      *)
(* spawns nothing.                                                         *)
(***************************************************************************)
\* dir lies in the port arc or in its mirror image, turned by ship_dir.
InFiringArc(torpedoes, ship_dir, dir) ==
    LET port == torpedoes.port_firing_angle
        starboard == AngleRange((Circle - port.to) % Circle, (Circle - port.from) % Circle)
        rel == (dir - ship_dir) % Circle
    IN  OnSweep(port, rel) \/ OnSweep(starboard, rel)

C23_VolleyNeedsArcAndReload ==
    [][(\E dir \in Dirs : LaunchTorpedoVolleyCommand_apply_tubes(dir)) =>
         LET before == tubes.torpedo_reloads
             after == tubes'.torpedo_reloads
             allowed == /\ InFiringArc(tubes.torpedoes, tubes.ship_dir, tubes'.dir)
                        /\ \E i \in DOMAIN before : before[i].finished
             reset == {i \in DOMAIN before : after[i] # before[i]}
         IN  IF allowed
             THEN /\ Len(tubes'.torps) = tubes.torpedoes.torps_per_volley
                  /\ Cardinality(reset) = 1
                  /\ \A i \in reset : /\ before[i].finished
                                      /\ after[i] = Timer_new(tubes.torpedoes.reload)
             ELSE /\ tubes'.torps = <<>>
                  /\ reset = {}]_vars

\* A volley was launched to starboard with both timers finished: one was
\* reset, the other is still finished.
C23_Witness ==
    /\ tubes.spawned
    /\ tubes.torps # <<>>
    /\ ~OnSweep(tubes.torpedoes.port_firing_angle, (tubes.dir - tubes.ship_dir) % Circle)
    /\ tubes.ship_dir # 0
    /\ ~tubes.torpedo_reloads[1].finished
    /\ tubes.torpedo_reloads[2].finished

(***************************************************************************)
(* C24: the torpedoes of a launched volley of n torpedoes with spread S    *)
(* have direction offsets from the commanded direction that are symmetric  *)
(* about zero and evenly spaced, the outermost two S apart; every torpedo  *)
(* of every size of volley a template allows has a defined direction.      *)
(* For a volley of one torpedo the offset is not a number                  *)
(* (C24_SingleTorpedoUndefined); for two and more the claim holds          *)
(* (C24_SpreadOfTwoOrMore).                                                *)
(***************************************************************************)
\* The offsets are numbers, symmetric about zero, evenly spaced, and the
\* last is the spread beyond the first.
SpreadExact(torps, spread) ==
    LET n == Len(torps)
    IN  /\ \A k \in 1..n : torps[k].class = "finite" /\ torps[k].den # 0
        /\ \A k \in 1..n : /\ torps[k].den = torps[n + 1 - k].den
                           /\ torps[k].num = 0 - torps[n + 1 - k].num
        /\ \A k \in 1..(n - 2) :
               /\ torps[k].den = torps[k + 1].den /\ torps[k + 1].den = torps[k + 2].den
               /\ torps[k + 1].num - torps[k].num = torps[k + 2].num - torps[k + 1].num
        /\ torps[n].num - torps[1].num = spread * torps[1].den

C24_SpreadOfTwoOrMore ==
    tubes.spawned /\ Len(tubes.torps) >= 2 => SpreadExact(tubes.torps, tubes.torpedoes.spread)

\* A volley of one torpedo whose direction is not a number.
C24_SingleTorpedoUndefined ==
    /\ tubes.spawned
    /\ Len(tubes.torps) = 1
    /\ tubes.torps[1].class = "nan"

(***************************************************************************)
(* C21: a turret spawns bullets in a frame only if, in that frame, the     *)
(* angle between its bearing and the desired bearing is within the         *)
(* tolerance, its bearing lies within its firing arc (where it has one),   *)
(* and its reload countdown has elapsed.                                   *)
(***************************************************************************)
\* The turret has a target and bears on it within the tolerance.
BearsOnTarget(state) ==
    /\ state.targ_dir # <<>>
    /\ AngularDistance(state.dir, state.targ_dir[1]) <= Tolerance

\* The bearing is on the sweep of the firing arc, for a mount that has one.
InsideFiringArc(state) ==
    LET firing_angle == TurretMounts[state.instance].firing_angle
    IN  firing_angle # <<>> => OnSweep(firing_angle[1], state.dir)

C28_OneBulletPerBarrelThenReload ==
    [][fire_bullets_gun /\ gun'.shots > 0 =>
         /\ gun'.shots = mount.barrel_count
         /\ gun'.reload_timer = [remaining |-> mount.reload_secs, finished |-> FALSE]
         /\ gun'.waited = 0
         /\ gun.waited >= mount.reload_secs]_vars

\* The two-barrelled turret has fired for the second time.
C28_Witness ==
    /\ gun.instance = 1
    /\ gun.fired = 2
    /\ gun.shots = 2
    /\ ~gun.reload_timer.finished

(***************************************************************************)
(* C29: after an aim update the status of a turret is AimedAtTarget only   *)
(* in a frame in which it may fire, AimingToTarget when it has a target    *)
(* and is still traversing, and NoValidTarget when it has no target.       *)
(* As stated (C29_AimedOnlyWhenEligible) this fails: the status does not   *)
(* look at the reload timer.  C29_StatusFollowsAim is the statement that   *)
(* holds.                                                                  *)
(***************************************************************************)
\* The aim update and the reload tick of the frame have run.
AimUpdated ==
    /\ gun.instance # 0
    /\ {"turret_reloading", "aim_turrets"} \subseteq gun.ran

\* The turret may fire in this frame: aimed, in its arc and reloaded (after
\* fire_bullets: it has fired).
EligibleToFire ==
    /\ BearsOnTarget(gun)
    /\ InsideFiringArc(gun)
    /\ IF "fire_bullets" \in gun.ran THEN gun.shots > 0 ELSE gun.reload_timer.finished

C29_AimedOnlyWhenEligible ==
    AimUpdated =>
        /\ gun.aim_info = "AimedAtTarget" => EligibleToFire
        /\ gun.aim_info = "AimingToTarget" => gun.targ_dir # <<>> /\ ~EligibleToFire
        /\ gun.aim_info = "NoValidTarget" => gun.targ_dir = <<>>

C29_StatusFollowsAim ==
    gun.instance # 0 /\ "aim_turrets" \in gun.ran =>
        gun.aim_info = IF gun.targ_dir = <<>> THEN "NoValidTarget"
                       ELSE IF BearsOnTarget(gun) /\ InsideFiringArc(gun)
                       THEN "AimedAtTarget"
                       ELSE "AimingToTarget"

\* A turret that is AimedAtTarget in a frame in which it is still reloading
\* and does not fire.
C29_Witness ==
    /\ AimUpdated
    /\ gun.aim_info = "AimedAtTarget"
    /\ "fire_bullets" \in gun.ran
    /\ gun.shots = 0
    /\ ~gun.reload_timer.finished

(***************************************************************************)
(* C30: a turret with a movement arc, which starts inside it, bears within *)
(* the arc (its ends included) after every aim update, and an aim update   *)
(* changes its bearing by at most turn_rate * dt.                          *)
(***************************************************************************)
C30_BearingStaysInMovementArc ==
    [][/\ gun.instance # 0
       /\ "aim_turrets" \notin gun.ran
       /\ "aim_turrets" \in gun'.ran
       /\ mount.movement_angle # <<>>
       =>
         /\ OnSweep(mount.movement_angle[1], gun.dir)
         /\ OnSweep(mount.movement_angle[1], gun'.dir)
         /\ AngularDistance(gun.dir, gun'.dir) <= TurnRate * gun.delta]_vars

\* The aft turret stands at the end of its arc after an aim update with a
\* target in the forbidden sweep.
C30_Witness ==
    /\ gun.instance = 1
    /\ "aim_turrets" \in gun.ran
    /\ gun.dir = 20
    /\ gun.targ_dir = <<22>>
    /\ gun.aim_info = "AimedAtTarget"

(***************************************************************************)
(* C25: UseConsumableSmoke starts a deployment only if charges remain (or  *)
(* are unlimited) and the cooldown timer has elapsed; an activation takes  *)
(* one charge and starts the action timer; while the action timer runs,    *)
(* one puff is emitted at the position the ship then has for every puff    *)
(* period that has passed, until the action timer elapses, which it does.  *)
(***************************************************************************)
\* The periods completed in a time.
Periods(time) == time \div PuffPeriod

C25_Activation ==
    smokeUnit.spawned /\ ~smokeUnit.deploying /\ smokeUnit'.deploying =>
        /\ smokeUnit.cooldown_timer.finished
        /\ \/ /\ smokeUnit.charges_unused = <<>>
              /\ smokeUnit'.charges_unused = <<>>
           \/ /\ smokeUnit.charges_unused # <<>>
              /\ smokeUnit.charges_unused[1] > 0
              /\ smokeUnit'.charges_unused = <<smokeUnit.charges_unused[1] - 1>>
        /\ smokeUnit'.action_timer =
               [remaining |-> smokeUnit.smoke.action_time, finished |-> FALSE]
        /\ smokeUnit'.puffs = 0

C25_Emission ==
    smokeUnit.spawned /\ smokeUnit.deploying /\ smokeUnit'.since # smokeUnit.since =>
        /\ smokeUnit'.emitted <=> Periods(smokeUnit'.since) > Periods(smokeUnit.since)
        /\ smokeUnit'.emitted =>
               /\ smokeUnit'.puffs = smokeUnit.puffs + 1
               /\ smokeUnit'.last_puff = <<smokeUnit.pos>>
        /\ ~smokeUnit'.emitted => smokeUnit'.puffs = smokeUnit.puffs
        /\ smokeUnit'.deploying <=> smokeUnit'.since < smokeUnit.smoke.action_time

C25_PuffPerPeriod ==
    smokeUnit.spawned =>
        /\ smokeUnit.deploying => smokeUnit.puffs = Periods(smokeUnit.since)
        /\ ~smokeUnit.deploying /\ smokeUnit.activations > 0 =>
               smokeUnit.puffs = Periods(smokeUnit.smoke.action_time)
        /\ ~smokeUnit.deploying => ~smokeUnit.emitted \/ smokeUnit.action_timer.finished

C25_SmokeDeployment ==
    /\ [][C25_Activation /\ C25_Emission]_vars
    /\ []C25_PuffPerPeriod
    /\ (smokeUnit.spawned /\ smokeUnit.deploying) ~> (smokeUnit.spawned /\ ~smokeUnit.deploying)

\* The second deployment of a ship that had three charges: two puffs so
\* far, the last one where the ship was before it moved on.
C25_Witness ==
    /\ smokeUnit.spawned
    /\ smokeUnit.deploying
    /\ smokeUnit.activations = 2
    /\ smokeUnit.charges_unused = <<1>>
    /\ smokeUnit.puffs = 2
    /\ smokeUnit.last_puff # <<smokeUnit.pos>>

(***************************************************************************)
(* C27: a bullet or torpedo takes health from a ship only if the ship is   *)
(* of the other team and the projectile is inside the bounding box of the  *)
(* hull, taken in the frame of the ship; the projectile that hit is        *)
(* despawned, and a ship whose health is at or below zero after the hit is *)
(* despawned in the same frame.                                            *)
(***************************************************************************)
\* The points of the hull of a ship: three along its keel, from the
\* waterline up to z = 1.
HullPoints(ship) ==
    LET along_x == ship.rot % 2 = 0
    IN  {<<ship.pos[1] + (IF along_x THEN k ELSE 0),
           ship.pos[2] + (IF along_x THEN 0 ELSE k), z>> : k \in -1..1, z \in 0..1}

C27_HitStep ==
    arena.spawned /\ arena.step = "collide" /\ arena'.step = "sync" =>
        \A i \in ArenaShips :
            arena'.ships[i].health # arena.ships[i].health =>
                /\ arena.projectile.alive
                /\ arena.ships[i].alive
                /\ arena.ships[i].team # arena.projectile.team
                /\ arena.projectile.pos \in HullPoints(arena.ships[i])
                /\ 0 \in Range(arena'.queue)
                /\ arena'.ships[i].health <= 0 => i \in Range(arena'.queue)

C27_AfterSync ==
    arena.spawned /\ arena.step = "move" =>
        /\ arena.hits # {} => ~arena.projectile.alive
        /\ \A i \in ArenaShips : arena.ships[i].health <= 0 => ~arena.ships[i].alive

C27_HitNeedsEnemyInsideHull ==
    /\ [][C27_HitStep]_vars
    /\ []C27_AfterSync

\* A torpedo of team 1 has sunk two overlapping ships of team 2 in one
\* frame; the three are despawned.
C27_Witness ==
    /\ arena.spawned
    /\ arena.step = "move"
    /\ arena.hits = {1, 2}
    /\ arena.projectile.kind = "torpedo"
    /\ ~arena.projectile.alive
    /\ ~arena.ships[1].alive
    /\ ~arena.ships[2].alive
    /\ arena.ships[2].rot = 3

(***************************************************************************)
(* C26: in every tick the phases take effect in the order inbound          *)
(* commands, kinematics and projectiles, collisions, detection, turrets,   *)
(* replication; the target selection of the turrets reads the is_detected  *)
(* the detection update of the same tick wrote; and what a phase queued is *)
(* applied before the next phase reads.  The schedule does not keep this   *)
(* (C26_PhasesInOrder is violated): aim_turrets is not ordered against the *)
(* detection update (C26_AimReadsLastFrame), collide_torpedoes not against *)
(* the detection update and the turrets (C26_ReadsPastQueuedDespawn), and  *)
(* the replication runs in FixedUpdate, ahead of Update.  What the         *)
(* schedule does keep is C26_FireAfterDetection.                           *)
(***************************************************************************)
C26_PhasesInOrder ==
    sched.stage # "PreStartup" =>
        /\ ~sched.out_of_order
        /\ sched.aim_read \in {"none", "this frame"}
        /\ ~sched.read_queued

\* fire_bullets runs after the detection update and the aim of the frame,
\* and a collision system after the kinematics of its projectiles.
C26_FireAfterDetection ==
    sched.stage = "Update" =>
        /\ "fire_bullets" \in sched.ran =>
               {"update_detection", "aim_turrets", "turret_reloading"} \subseteq sched.ran
        /\ "update_detection" \in sched.ran =>
               {"apply_velocity", "move_bullets", "collide_bullets"} \subseteq sched.ran
        /\ "collide_torpedoes" \in sched.ran => "apply_velocity" \in sched.ran
        /\ "collide_bullets" \in sched.ran => "move_bullets" \in sched.ran

\* A frame has ended in which aim_turrets selected its targets on the
\* is_detected of the frame before.
C26_AimReadsLastFrame ==
    /\ sched.stage = "Last"
    /\ sched.aim_read = "last frame"

\* fire_bullets has run while the despawns collide_torpedoes queued in the
\* frame were not applied.
C26_ReadsPastQueuedDespawn ==
    /\ sched.stage = "Update"
    /\ "fire_bullets" \in sched.ran
    /\ "collide_torpedoes" \in sched.unapplied
    /\ sched.read_queued
    /\ sched.aim_read = "this frame"

(***************************************************************************)
(* C31: for a turret with a movement arc, the direction aim_turrets        *)
(* chooses in a frame is one in which the sweep from the bearing to the    *)
(* desired bearing stays on the movement arc; for a desired bearing        *)
(* outside the arc it is the direction of the nearer end of the arc; and   *)
(* a turret standing on an end of its arc turns towards a desired bearing  *)
(* inside the arc.                                                         *)
(***************************************************************************)
\* The sweep from curr_dir to desired_dir in the direction turned stays on
\* the arc.
SweepClear(range, curr_dir, desired_dir, turned) ==
    /\ OnSweep(range, curr_dir)
    /\ OnSweep(range, desired_dir)
    /\ IF turned = 1
       THEN (curr_dir - range.from) % Circle <= (desired_dir - range.from) % Circle
       ELSE (desired_dir - range.from) % Circle <= (curr_dir - range.from) % Circle

\* The direction of the end of the arc nearer to a bearing outside it.
TowardsNearerEnd(range, desired_dir, turned) ==
    /\ AngularDistance(desired_dir, range.to) < AngularDistance(desired_dir, range.from)
           => turned = 1
    /\ AngularDistance(desired_dir, range.from) < AngularDistance(desired_dir, range.to)
           => turned = -1

\* An update of aim_turrets with a target, for a mount with a movement arc.
AimedWithArc ==
    /\ gun.instance # 0
    /\ "aim_turrets" \notin gun.ran
    /\ "aim_turrets" \in gun'.ran
    /\ mount.movement_angle # <<>>
    /\ gun'.targ_dir # <<>>

C31_SweepAvoidsForbiddenArc ==
    [][AimedWithArc =>
         LET range == mount.movement_angle[1]
             desired_dir == gun'.targ_dir[1]
         IN  /\ OnSweep(range, desired_dir) /\ desired_dir # gun.dir
                    => SweepClear(range, gun.dir, desired_dir, gun'.rotate_dir)
             /\ ~OnSweep(range, desired_dir)
                    => TowardsNearerEnd(range, desired_dir, gun'.rotate_dir)
             /\ (gun.dir \in {range.from, range.to}
                     /\ OnSweep(range, desired_dir) /\ desired_dir # gun.dir)
                    => gun'.dir = rotate(gun.dir, gun'.rotate_dir * TurnRate * gun.delta)]_vars

\* The same for desired bearings more than the nudge away from the bearing.
C31_SweepAvoidsForbiddenArcBeyondNudge ==
    [][AimedWithArc /\ AngularDistance(gun.dir, gun'.targ_dir[1]) > Nudge =>
         LET range == mount.movement_angle[1]
             desired_dir == gun'.targ_dir[1]
         IN  /\ OnSweep(range, desired_dir)
                    => SweepClear(range, gun.dir, desired_dir, gun'.rotate_dir)
             /\ ~OnSweep(range, desired_dir)
                    => TowardsNearerEnd(range, desired_dir, gun'.rotate_dir)
             /\ (gun.dir \in {range.from, range.to} /\ OnSweep(range, desired_dir))
                    => gun'.dir = rotate(gun.dir, gun'.rotate_dir * TurnRate * gun.delta)]_vars

(***************************************************************************)
(* C32: update_ship_velocity consumes a MoveOrder from the front: it       *)
(* removes the first waypoint only if the ship is within the reach of it,  *)
(* at most one in a run, leaves the rest in order, and for a removal sends *)
(* exactly one SetMoveOrder with the remaining waypoints, to the owner of  *)
(* the ship; without a removal it sends none.                              *)
(***************************************************************************)
C32_ConsumedFromFront ==
    [][mover.spawned /\ mover.next = "update_ship_velocity"
         /\ mover'.next = "apply_velocity" =>
         IF mover'.move_order # mover.move_order
         THEN /\ mover.move_order # <<>>
              /\ mover.move_order[1] # <<>>
              /\ Abs(mover.move_order[1][1] - mover.pos) <= WaypointReach
              /\ mover'.move_order = <<Tail(mover.move_order[1])>>
              /\ Len(mover'.sent) = 1
              /\ mover'.sent[1].client = mover.team
              /\ mover'.sent[1].type = "SetMoveOrder"
              /\ mover'.sent[1].waypoints = mover'.move_order[1]
         ELSE mover'.sent = <<>>]_vars

\* The ship has reached the first of two waypoints; its owner was sent the
\* one that remains.
C32_Witness ==
    /\ mover.spawned
    /\ mover.next = "apply_velocity"
    /\ mover.team = 2
    /\ mover.move_order = <<(<<4>>)>>
    /\ mover.pos = 1
    /\ mover.sent = <<[client |-> 2, type |-> "SetMoveOrder", waypoints |-> <<4>>]>>

(***************************************************************************)
(* C33: the deployment ends in the frame its action timer elapses, with    *)
(* the cooldown timer at zero; the next activation comes only after        *)
(* advance_smoke_cooldown has ticked a full cooldown since that end; and   *)
(* a UseConsumableSmoke received while deploying takes no charge and       *)
(* changes no timer.                                                       *)
(***************************************************************************)
C33_DeploymentEnds ==
    smokeUnit.spawned /\ smokeUnit.deploying /\ smokeUnit'.action_timer # smokeUnit.action_timer =>
        IF smokeUnit'.action_timer.finished
        THEN /\ ~smokeUnit'.deploying
             /\ smokeUnit'.cooldown_timer =
                    [remaining |-> smokeUnit.smoke.cooldown, finished |-> FALSE]
             /\ smokeUnit'.cooled = 0
        ELSE smokeUnit'.deploying

C33_FullCooldown ==
    smokeUnit.spawned /\ ~smokeUnit.deploying /\ smokeUnit'.deploying =>
        smokeUnit.cooled >= smokeUnit.smoke.cooldown

C33_DroppedWhileDeploying ==
    smokeUnit.spawned /\ smokeUnit.deploying /\ ~smokeUnit.returned /\ smokeUnit'.returned =>
        /\ smokeUnit'.deploying
        /\ smokeUnit'.charges_unused = smokeUnit.charges_unused
        /\ smokeUnit'.cooldown_timer = smokeUnit.cooldown_timer
        /\ smokeUnit'.action_timer = smokeUnit.action_timer
        /\ smokeUnit'.puff_timer = smokeUnit.puff_timer

C33_CooldownAfterDeployment ==
    /\ [][C33_DeploymentEnds]_vars
    /\ [][C33_FullCooldown]_vars
    /\ [][C33_DroppedWhileDeploying]_vars

\* In the second deployment of a ship, after its first frame, a
\* UseConsumableSmoke has just returned without effect.
C33_Witness ==
    /\ smokeUnit.spawned
    /\ smokeUnit.deploying
    /\ smokeUnit.activations = 2
    /\ smokeUnit.returned
    /\ smokeUnit.cooled = 0
    /\ smokeUnit.since > 0

(***************************************************************************)
(* C34: an update of the detection in which a ship goes from detected to   *)
(* undetected leaves its firing-boost countdown at a timer of zero         *)
(* seconds, and an update that finds the countdown so decides the          *)
(* detection of the ship by the unboosted range, in spite of the range     *)
(* its firing left; only a new shot starts the countdown again.            *)
(***************************************************************************)
\* The countdown update_detection leaves on an undetected entity.
BoostDropped(status) ==
    status.detection_increased_by_firing = [remaining |-> 0, finished |-> FALSE]

C34_LostDetectionDropsBoost ==
    [][update_detection =>
          \A e \in Ships :
              /\ world[e].is_detected /\ ~world'[e].is_detected
                     => BoostDropped(world'[e])
              /\ BoostDropped(world[e])
                     => /\ world'[e].is_detected <=>
                              \E d \in Opposing(e) :
                                  Abs(world[d].pos - world[e].pos) <= UnboostedRange(e, d)
                        /\ world'[e].is_detected
                               => world'[e].detection_increased_by_firing.finished]_vars

\* A ship that fired has just gone from detected to undetected behind smoke:
\* both clients are told, and its countdown is the timer of zero seconds.
C34_Witness ==
    \E e, d \in Ships :
        /\ world[d].team # world[e].team
        /\ world[e].detection_increased_by_firing_at_range > world[e].base_detection
        /\ SmokeBetween(d, e)
        /\ ~world[e].is_detected
        /\ BoostDropped(world[e])
        /\ \E i \in DOMAIN outbox :
              /\ outbox[i].type = "SetDetection"
              /\ outbox[i].id = idOf[e]
              /\ outbox[i].flag = FALSE

(***************************************************************************)
(* C35: when network_handshake has completed without an error, one         *)
(* ClientInfo exists for each of the two clients the init message names,   *)
(* and no other, in whatever order and from whichever client the InitB     *)
(* messages came; initalize_game then finds two teams.                     *)
(***************************************************************************)
C35_TwoClientInfosAfterHandshake ==
    mainPc = "startup" =>
        /\ hsError = "none"
        /\ clientInfos = Range(MatchClients)
        /\ Cardinality(clientInfos) = NumClients

\* The run C35 fails on: the handshake has completed on two InitB messages
\* that carry the same id, and initalize_game is about to meet one
\* ClientInfo.
C35_HandshakeLeftOneClientInfo ==
    /\ mainPc = "startup"
    /\ Cardinality(clientInfos) = 1

\* What every run keeps: the frames run only with a ClientInfo for each of
\* the two clients.
C35_FramesHaveTwoTeams ==
    mainPc \in {"poll", "update", "send"} => Cardinality(clientInfos) = NumClients

(***************************************************************************)
(* C36: the owning_ship of every SpawnBullet message is the shared id of a *)
(* ship that is alive when the message is queued, and no                   *)
(* SpawnBulletCommand panics when it is applied, in whatever order the     *)
(* systems of the frame queued their commands.                             *)
(***************************************************************************)
\* The owning ship of each SpawnBullet message in the outbox is alive.
C36_OwnerLiveWhenQueued ==
    \A i \in DOMAIN outbox :
        outbox[i].type = "SpawnBullet" =>
            get_by_shared(tracking, outbox[i].owner) \in Ships

C36_BulletSpawnCompletes ==
    /\ C36_OwnerLiveWhenQueued
    /\ ~panicked

\* The run C36 fails on: a SpawnBulletCommand panicked on its despawned
\* owning ship and left a bullet that has no shared id.
C36_SpawnPanickedOnDespawnedOwner ==
    /\ panicked
    /\ \E e \in Alive :
          /\ world[e].kind = "bullet"
          /\ get_by_local(tracking, e) = NoId

(***************************************************************************)
(* C37: a client is sent at most one DestroyEntity for a shared id: the    *)
(* DestroyEntity messages a DespawnNetworkedEntityCommand queues go one to *)
(* each client and carry an id for which that client was sent none         *)
(* before, also when an earlier command of the same queue despawned the    *)
(* same entity.                                                            *)
(***************************************************************************)
C37_OneDestroyPerClientAndId ==
    [][pc = "despawn_notify" =>
          \A i \in DOMAIN outbox' :
              outbox'[i].type = "DestroyEntity" =>
                  /\ <<outbox'[i].client, outbox'[i].id>> \notin destroySent
                  /\ \A j \in DOMAIN outbox' :
                        /\ outbox'[j].type = "DestroyEntity"
                        /\ outbox'[j].client = outbox'[i].client
                        /\ outbox'[j].id = outbox'[i].id
                        => j = i]_vars

\* A second despawn command for a torpedo is being applied: the entity is
\* freed, both clients were sent the DestroyEntity of its id by the first,
\* and the tracker no longer has the pair.
C37_Witness ==
    /\ pc = "despawn_retire"
    /\ kindOf[cur.entity] = "torpedo"
    /\ idOf[cur.entity] # NoId
    /\ \A cl \in ClientIds : <<cl, idOf[cur.entity]>> \in destroySent
    /\ get_by_local(tracking, cur.entity) = NoId

(***************************************************************************)
(* C38: a bullet or torpedo takes health from at most one ship, and a ship *)
(* whose health is at or below zero loses no more.  The collision systems  *)
(* go on through the ships after a hit, so a projectile inside the hulls   *)
(* of two ships of the other team takes health from both                   *)
(* (C38_OneShipPerProjectile is violated); the second half is              *)
(* C38_NoDamageBelowZero.                                                  *)
(***************************************************************************)
\* The ships the run of the collision system took health from.
Damaged == {i \in ArenaShips : arena'.ships[i].health # arena.ships[i].health}

C38_OneShipPerProjectile ==
    [][arena.spawned /\ arena.step = "collide" /\ arena'.step = "sync" =>
          /\ Cardinality(Damaged) <= 1
          /\ \A i \in Damaged : arena.ships[i].health > 0]_vars

C38_NoDamageBelowZero ==
    [][arena.spawned /\ arena.step = "collide" /\ arena'.step = "sync" =>
          /\ \A i \in Damaged : arena.ships[i].health > 0
          /\ Damaged # {} => ~arena'.projectile.alive \/ 0 \in Range(arena'.queue)]_vars

\* The run C38 fails on: one bullet has taken health from both ships in one
\* run of collide_bullets, and its despawn is queued twice.
C38_BulletDamagedTwoShips ==
    /\ arena.spawned
    /\ arena.step = "sync"
    /\ arena.projectile.kind = "bullet"
    /\ arena.hits = {1, 2}
    /\ Cardinality({k \in DOMAIN arena.queue : arena.queue[k] = 0}) = 2

(***************************************************************************)
(* C39: the charges of a ship whose template has a number of them never    *)
(* go below zero, and together with the activations so far they make up    *)
(* that number, so the ship is never activated more often; a ship whose    *)
(* template has zero charges has none to count (None), and a               *)
(* UseConsumableSmoke for it returns without an activation only while it   *)
(* is deploying or its cooldown runs.                                      *)
(***************************************************************************)
C39_ChargesCount ==
    smokeUnit.spawned =>
        IF smokeUnit.smoke.charges > 0
        THEN /\ smokeUnit.charges_unused # <<>>
             /\ smokeUnit.charges_unused[1] >= 0
             /\ smokeUnit.activations + smokeUnit.charges_unused[1] = smokeUnit.smoke.charges
        ELSE smokeUnit.charges_unused = <<>>

C39_UnlimitedNeverOut ==
    smokeUnit.spawned /\ smokeUnit.smoke.charges = 0
        /\ ~smokeUnit.returned /\ smokeUnit'.returned =>
            smokeUnit.deploying \/ ~smokeUnit.cooldown_timer.finished

C39_ChargesBoundActivations ==
    /\ []C39_ChargesCount
    /\ [][C39_UnlimitedNeverOut]_vars

\* A ship with three charges has used them all; its cooldown has elapsed
\* and a further UseConsumableSmoke has returned without an activation.
C39_Witness ==
    /\ smokeUnit.spawned
    /\ smokeUnit.smoke.charges = 3
    /\ smokeUnit.charges_unused = <<0>>
    /\ smokeUnit.activations = 3
    /\ ~smokeUnit.deploying
    /\ smokeUnit.cooldown_timer.finished
    /\ smokeUnit.returned

\* A ship without a number of charges is in its fourth deployment.
C39_UnlimitedWitness ==
    /\ smokeUnit.spawned
    /\ smokeUnit.smoke.charges = 0
    /\ smokeUnit.activations = 4
    /\ smokeUnit.deploying

(***************************************************************************)
(* C40: every match the matchmaker creates has two different clients that  *)
(* were both ReadyForMatch when it was created; no client is in two        *)
(* matches; and a SetReadyForMatch of a client that is InMatch leaves the  *)
(* state of the client as it is.                                           *)
(***************************************************************************)
\* The client is ReadyForMatch when the turn that handles mm'.msg reaches
\* the making of a match.
ReadyAtCreation(cl) ==
    IF mm'.msg.type = "SetReadyForMatch" /\ mm'.msg.client = cl
    THEN mm'.msg.is_ready /\ mm.connected_clients[cl].state \in {"InLobby", "ReadyForMatch"}
    ELSE mm.connected_clients[cl].state = "ReadyForMatch"

C40_MatchOfTwoReady ==
    mm.spawned /\ mm'.active_matches # mm.active_matches =>
        /\ Len(mm'.active_matches) = Len(mm.active_matches) + 1
        /\ SubSeq(mm'.active_matches, 1, Len(mm.active_matches)) = mm.active_matches
        /\ LET created == mm'.active_matches[Len(mm'.active_matches)]
           IN  /\ created.clients[1] # created.clients[2]
               /\ \A k \in 1..2 :
                     /\ ReadyAtCreation(created.clients[k])
                     /\ mm'.connected_clients[created.clients[k]] = InMatch(created.id)

C40_OneMatchPerClient ==
    mm.spawned =>
        \A i, j \in DOMAIN mm.active_matches :
            i # j => Range(mm.active_matches[i].clients)
                         \cap Range(mm.active_matches[j].clients) = {}

C40_InMatchIgnoresReady ==
    /\ mm.spawned
    /\ mm'.msg.type = "SetReadyForMatch"
    /\ mm' # mm
    /\ mm.connected_clients[mm'.msg.client].state = "InMatch"
    /\ mm'.msg.client \notin mm.disconnected
    => mm'.connected_clients[mm'.msg.client] = mm.connected_clients[mm'.msg.client]

C40_MatchmakerPairsReadyClients ==
    /\ [][C40_MatchOfTwoReady]_vars
    /\ []C40_OneMatchPerClient
    /\ [][C40_InMatchIgnoresReady]_vars

\* Two matches have been made of four clients, and a client of the second
\* has asked to be taken from the queue.
C40_Witness ==
    /\ mm.spawned
    /\ Len(mm.active_matches) = 2
    /\ mm.msg.type = "SetReadyForMatch"
    /\ ~mm.msg.is_ready
    /\ mm.connected_clients[mm.msg.client] = InMatch(2)

====
